---- MODULE Spec2Model ----
(***************************************************************************)
(* Model of RAGQueryService (src/src/services/ragQueryService.ts), of the  *)
(* SourceCitation view in the same file, of the chat page                  *)
(* (src/src/pages/auth/AuthPage.tsx) and of the legal link generator       *)
(* (src/src/utils/legal-link-generator.ts).                                *)
(*                                                                         *)
(* One askQuestion request is a process whose position is pc; every await  *)
(* on an external collaborator is one action whose outcome is chosen       *)
(* nondeterministically among the outcomes the collaborator can produce.   *)
(*                                                                         *)
(* Text is a sequence of tokens: a token is a word, a single blank " " or  *)
(* a run of filler letters; TokLen gives the number of characters of a     *)
(* token.  Words are always separated by blanks, so a regular expression   *)
(* with word boundaries is a test on whole tokens and a substring test for *)
(* a blank-free keyword is a test inside one token.  In the payload of a   *)
(* completion a token is also a line break, the section separator or an    *)
(* echoed part label, and tokens may follow each other without a blank.    *)
(*                                                                         *)
(* Spec is the request and SpecLive adds that its collaborators answer;    *)
(* SpecDedup, SpecExpand and SpecParse run deduplicateChunks,              *)
(* generateSearchQueries and parseModelResponse on their own over every    *)
(* bounded input; SpecPair interleaves two requests on one instance.       *)
(* SpecCite builds the citation of one chunk, SpecView renders a citations *)
(* array, SpecChat is the chat page and SpecLinks the link generator.      *)
(***************************************************************************)
EXTENDS Integers, Sequences, FiniteSets, TLC

VARIABLES
    pc,              \* position of the request in askQuestion
    question,        \* argument question (token sequence)
    options,         \* argument options: selectedDocumentIds, selectedMasters
    embeddingTokens, \* embeddingResult.tokenCount (line 100)
    searchQueries,   \* searchQueries (line 103)
    qi,              \* index of the variant the loop of line 109 is at
    allChunks,       \* allChunks (line 106)
    uniqueChunks,    \* uniqueChunks (lines 129-155)
    chunks,          \* chunks argument of generateResponseWithFallback
    usedFallback,    \* TRUE when the chain was entered from line 187
    mi,              \* index in modelPriority of the model being tried
    lastError,       \* lastError (line 487), <<>> when null
    pending,         \* indices of chunks whose createSignedUrl is in flight
    fileUrls,        \* index -> signed url obtained ("" when absent)
    response,        \* value the chain returned
    result,          \* value askQuestion delivered
    outcome,         \* "none", "returned" or "raised"
    data,            \* the payload of the completion (line 518)
    parsed,          \* what parseModelResponse made of it
    hist,            \* observations of the calls made (not program state)
    instance,        \* the fields of the RAGQueryService instance (lines 56-69)
    requests,        \* two invocations on that instance: the locals of each
    view,            \* what SourceCitation renders of a citations array
    chat             \* the state of the chat page (EnhancedChatPage)

vars == <<pc, question, options, embeddingTokens, searchQueries, qi, allChunks,
          uniqueChunks, chunks, usedFallback, mi, lastError, pending, fileUrls,
          response, result, outcome, data, parsed, hist, instance, requests, view, chat>>

----------------------------------------------------------------------------
(* Generic helpers on sequences.                                           *)

Range(s) == {s[i] : i \in 1..Len(s)}

\* s occurs in t as a contiguous run
Contains(t, s) ==
    \E i \in 0..(Len(t) - Len(s)) : SubSeq(t, i + 1, i + Len(s)) = s

----------------------------------------------------------------------------
(* Text.                                                                   *)

Blank == " "
Newline == "\n"
Filler4995 == "z{4995}"
Filler499 == "y{499}"
\* 199 one-letter words with one blank between neighbours
Prose199 == "w{199}"
Separator == "---SECTION_SEPARATOR---"
Part1Labels == {"**PART 1: SUMMARY**", "**part 1: summary**"}
Part2Labels == {"**PART 2: DETAILED ANSWER**"}

TokLen(t) ==
    CASE t = Blank -> 1
      [] t = Filler4995 -> 4995
      [] t = Filler499 -> 499
      [] t = Prose199 -> 397
      [] t = Separator -> 23
      [] t \in Part1Labels -> 19
      [] t \in Part2Labels -> 27
      [] t = "Detail" -> 6
      [] t = "." -> 1
      [] t = "bail" -> 4
      [] t = "HACK" -> 4
      [] t = "hacker" -> 6
      [] t = "writs" -> 5
      [] t = "videogames" -> 10
      [] t = "what" -> 4
      [] t = "is" -> 2
      [] t = "law" -> 3
      [] t = "why" -> 3
      [] t = "explain" -> 7
      [] t = "the" -> 3
      [] t = "Why" -> 3
      [] t = "simple" -> 6
      [] t = "theft" -> 5
      [] t = "ft" -> 2
      [] OTHER -> 1

\* String.prototype.toLowerCase on one token
ToLower(t) ==
    CASE t = "HACK" -> "hack"
      [] t = "Why" -> "why"
      [] OTHER -> t

\* keyword kw is a substring of the (lower-case) token t
SubstringOf(kw, t) ==
    \/ kw = t
    \/ <<kw, t>> \in {<<"game", "videogames">>, <<"hack", "hacker">>}

\* String.prototype.length
RECURSIVE StrLen(_)
StrLen(s) == IF s = <<>> THEN 0 ELSE TokLen(Head(s)) + StrLen(Tail(s))

\* what String.prototype.trim and the class \s take for white space
IsWhitespace(t) == t \in {Blank, Newline}

RECURSIVE TrimStart(_)
TrimStart(s) ==
    IF s # <<>> /\ IsWhitespace(Head(s)) THEN TrimStart(Tail(s)) ELSE s

RECURSIVE TrimEnd(_)
TrimEnd(s) ==
    IF s # <<>> /\ IsWhitespace(s[Len(s)]) THEN TrimEnd(SubSeq(s, 1, Len(s) - 1)) ELSE s

\* String.prototype.trim
Trim(s) == TrimEnd(TrimStart(s))

\* String.prototype.includes for a keyword without blanks (case already
\* folded by the caller through ToLower)
Includes(s, kw) == \E i \in 1..Len(s) : SubstringOf(kw, ToLower(s[i]))

\* the phrase p (lower-case tokens) starts at position i of s, ignoring case
PhraseAt(s, p, i) ==
    /\ i + Len(p) - 1 <= Len(s)
    /\ \A k \in 1..Len(p) : ToLower(s[i + k - 1]) = p[k]

IncludesPhrase(s, p) == \E i \in 1..Len(s) : PhraseAt(s, p, i)

\* String.prototype.replace(/p/i, r): the first occurrence only
ReplaceFirst(s, p, r) ==
    IF ~IncludesPhrase(s, p) THEN s
    ELSE LET i == CHOOSE j \in 1..Len(s) :
                      PhraseAt(s, p, j) /\ \A k \in 1..(j - 1) : ~PhraseAt(s, p, k)
         IN  SubSeq(s, 1, i - 1) \o r \o SubSeq(s, i + Len(p), Len(s))

----------------------------------------------------------------------------
(* validateQuestion (lines 332-379).                                       *)

MinQuestionLength == 5
MaxQuestionLength == 5000

inappropriateWords ==
    {"hack", "crack", "exploit", "attack", "malware", "virus",
     "porn", "xxx", "sex", "kill", "murder", "death", "suicide"}

offTopicKeywords == {"sports", "politics", "movie", "game", "recipe", "weather"}

MsgTooShort == <<"Please ask a more detailed question.">>
MsgTooLong == <<"Your question is too long. Please keep it under 5000 characters.">>
MsgInappropriate == <<"Please ask questions related to spirituality, meditation, and Heartfulness teachings.">>
MsgOffTopic == <<"I am here to help with legal research questions about Indian law.">>

\* /\b(w1|w2|...)\b/i.test(question): some whole word is in the list
MatchesInappropriate(q) == \E i \in 1..Len(q) : ToLower(q[i]) \in inappropriateWords

\* offTopicKeywords.some(k => question.toLowerCase().includes(k))
IsOffTopic(q) == \E kw \in offTopicKeywords : Includes(q, kw)

Valid == [isValid |-> TRUE, message |-> <<>>]
Invalid(m) == [isValid |-> FALSE, message |-> m]

\* the length checks on the untrimmed question
validateQuestion_Untrimmed(q) ==
    IF StrLen(q) < MinQuestionLength THEN Invalid(MsgTooShort)
    ELSE IF StrLen(q) > MaxQuestionLength THEN Invalid(MsgTooLong)
    ELSE IF MatchesInappropriate(q) THEN Invalid(MsgInappropriate)
    ELSE IF IsOffTopic(q) THEN Invalid(MsgOffTopic)
    ELSE Valid

\* the off-topic check left out
validateQuestion_NoOffTopic(q) ==
    IF StrLen(Trim(q)) < MinQuestionLength THEN Invalid(MsgTooShort)
    ELSE IF StrLen(Trim(q)) > MaxQuestionLength THEN Invalid(MsgTooLong)
    ELSE IF MatchesInappropriate(q) THEN Invalid(MsgInappropriate)
    ELSE Valid

validateQuestion(q) ==
    IF StrLen(Trim(q)) < MinQuestionLength THEN Invalid(MsgTooShort)
    ELSE IF StrLen(Trim(q)) > MaxQuestionLength THEN Invalid(MsgTooLong)
    ELSE IF MatchesInappropriate(q) THEN Invalid(MsgInappropriate)
    ELSE IF IsOffTopic(q) THEN Invalid(MsgOffTopic)
    ELSE Valid

----------------------------------------------------------------------------
(* generateSearchQueries (lines 222-265).                                  *)

SimpleTriggers == {"simple", "basic", "beginner", "introduction", "explain", "overview"}
TopicStripWords == {"explain", "in", "very", "simple", "words", "about", "the"}
ContextSuffix == <<" ", "in Heartfulness meditation spiritual practice">>

\* /simple|basic|beginner|introduction|explain|overview/i.test(q)
NeedsSimple(q) == \E w \in SimpleTriggers : Includes(q, w)

\* q.replace(/explain|in|very|simple|words|about|the/gi, '')
\* what the replace leaves of one token: the words are matched anywhere,
\* inside a longer word too
StripToken(t) ==
    CASE ToLower(t) \in TopicStripWords -> ""
      [] t = "theft" -> "ft"
      [] OTHER -> t

StripTopicWords(q) ==
    SelectSeq([i \in 1..Len(q) |-> StripToken(q[i])], LAMBDA t : t # "")

Topic(q) == IF Includes(q, "explain") THEN Trim(StripTopicWords(q)) ELSE q

Reformulations(q, p, r1, r2) ==
    IF IncludesPhrase(q, p)
    THEN <<ReplaceFirst(q, p, r1), ReplaceFirst(q, p, r2)>>
    ELSE <<>>

\* the context put behind the topic instead of the question
ContextVariant_Topic(q) == Topic(q) \o ContextSuffix

\* line 246
ContextVariant(q) == q \o ContextSuffix

generateSearchQueries(q) ==
    <<q>>
    \o (IF NeedsSimple(q) /\ Topic(q) # <<>>
        THEN << <<"introduction", " ", "to", " ">> \o Topic(q),
                Topic(q) \o <<" ", "basics">>,
                <<"what", " ", "is", " ">> \o Topic(q),
                Topic(q) \o <<" ", "for", " ", "beginners">>,
                Topic(q) \o <<" ", "overview">> >>
        ELSE <<>>)
    \o << ContextVariant(q) >>
    \o Reformulations(q, <<"what", " ", "is">>, <<"meaning", " ", "of">>, <<"introduction", " ", "to">>)
    \o Reformulations(q, <<"how", " ", "to">>, <<"practice", " ", "of">>, <<"method", " ", "for">>)
    \o Reformulations(q, <<"why">>, <<"reason", " ", "for">>, <<"purpose", " ", "of">>)

----------------------------------------------------------------------------
(* The corpus the collaborators answer from.                               *)

NoPath == ""
\* a row without a similarity value (similarity is optional)
NoSimilarity == -1

\* rows match_legalrnd_chunks can return; similarity in percent; content n is
\* a text of n characters, the first n of one fixed stream of characters
rowA  == [id |-> "a", document_id |-> "d1", similarity |-> 40,
          content |-> 199, file_path |-> NoPath, file_type |-> ""]
rowB  == [id |-> "b", document_id |-> "d2", similarity |-> 90,
          content |-> 201, file_path |-> NoPath, file_type |-> ""]
rowA2 == [id |-> "a", document_id |-> "d1", similarity |-> 99,
          content |-> 199, file_path |-> NoPath, file_type |-> ""]
\* row of legalrnd_document_chunks joined with its document (lines 313-326)
rowF  == [id |-> "f", document_id |-> "d2", similarity |-> NoSimilarity,
          content |-> 0, file_path |-> NoPath, file_type |-> ""]

\* rows of legalrnd_documents, with the name of the category of each
Documents ==
    { [id |-> "d1", master |-> "m1", file_path |-> "p1.pdf", file_type |-> "pdf"],
      [id |-> "d2", master |-> "m2", file_path |-> NoPath, file_type |-> ""] }

rowC  == [id |-> "c", document_id |-> "d1", similarity |-> 40,
          content |-> 200, file_path |-> NoPath, file_type |-> ""]

\* the longest row list one similarity query delivers in the model
MaxRows == 2

\* data a successful similarity search can deliver for one variant
SearchResults ==
    {rows \in { <<>>, <<rowC>>, <<rowB, rowA2>>, <<rowB, rowC, rowA>> } : Len(rows) <= MaxRows}

Questions ==
    { <<"bail">>,
      <<" ", "bail", " ">>,
      <<"writs">>,
      <<"writs", " ", Filler4995>>,
      <<"HACK", " ", Filler4995, " ">>,
      <<"videogames", " ", "law">> }

OptionSets ==
    { [selectedDocumentIds |-> {},     selectedMasters |-> {}],
      [selectedDocumentIds |-> {"d1"}, selectedMasters |-> {}],
      [selectedDocumentIds |-> {"d3"}, selectedMasters |-> {}],
      [selectedDocumentIds |-> {},     selectedMasters |-> {"m1"}],
      [selectedDocumentIds |-> {"d2"}, selectedMasters |-> {"m1"}] }

----------------------------------------------------------------------------
(* deduplicateChunks (lines 270-279).                                      *)

RECURSIVE FirstOccurrences(_, _)
FirstOccurrences(s, seen) ==
    IF s = <<>> THEN <<>>
    ELSE IF Head(s).id \in seen THEN FirstOccurrences(Tail(s), seen)
    ELSE <<Head(s)>> \o FirstOccurrences(Tail(s), seen \cup {Head(s).id})

\* the sort key b.similarity || 0
SortKey(c) == IF c.similarity = NoSimilarity THEN 0 ELSE c.similarity

\* c inserted before the entries of equal key: ties come out in reverse
RECURSIVE InsertSorted_Unstable(_, _)
InsertSorted_Unstable(c, s) ==
    IF s = <<>> THEN <<c>>
    ELSE IF SortKey(Head(s)) > SortKey(c)
         THEN <<Head(s)>> \o InsertSorted_Unstable(c, Tail(s))
    ELSE <<c>> \o s

\* c inserted behind every entry whose key is not smaller (stable)
RECURSIVE InsertSorted(_, _)
InsertSorted(c, s) ==
    IF s = <<>> THEN <<c>>
    ELSE IF SortKey(Head(s)) >= SortKey(c) THEN <<Head(s)>> \o InsertSorted(c, Tail(s))
    ELSE <<c>> \o s

RECURSIVE SortBySimilarity(_)
SortBySimilarity(s) ==
    IF s = <<>> THEN <<>>
    ELSE InsertSorted(s[Len(s)], SortBySimilarity(SubSeq(s, 1, Len(s) - 1)))

\* sorted before the duplicates are dropped: the best sighting would survive
deduplicateChunks_SortFirst(s) == FirstOccurrences(SortBySimilarity(s), {})

deduplicateChunks(s) == SortBySimilarity(FirstOccurrences(s, {}))

\* the pools line 129 can be handed: rows of several queries, appended in order
rowZ == [id |-> "z", document_id |-> "d2", similarity |-> 0,
         content |-> 10, file_path |-> NoPath, file_type |-> ""]
PoolRows == {rowA, rowA2, rowB, rowC, rowF, rowZ}
MaxPool == 3
Pools == UNION {[1..n -> PoolRows] : n \in 0..MaxPool}

----------------------------------------------------------------------------
(* Scope filters and enrichment (lines 132-158, 284-307).                  *)

\* the document filter left out
FilterBySelectedDocuments_KeepAll(cs, opts) == cs

\* lines 133-138
FilterBySelectedDocuments(cs, opts) ==
    IF opts.selectedDocumentIds # {}
    THEN SelectSeq(cs, LAMBDA c : c.document_id \in opts.selectedDocumentIds)
    ELSE cs

\* line 141: the category lookup is issued
NeedsMastersLookup(cs, opts) == opts.selectedMasters # {} /\ Len(cs) > 0

\* what the lookup of lines 143-146 returns when it returns data
DocumentsOfMasters(masters) == {d \in Documents : d.master \in masters}

NoData == [isNull |-> TRUE, rows |-> {}]
Data(rows) == [isNull |-> FALSE, rows |-> rows]

\* lines 148-154; documents is NoData when the lookup returned null
FilterBySelectedMasters(cs, documents) ==
    IF ~documents.isNull
    THEN LET allowedDocIds == {d.id : d \in documents.rows}
         IN  SelectSeq(cs, LAMBDA c : c.document_id \in allowedDocIds)
    ELSE cs

\* what the lookup of lines 289-292 returns when it returns data
DocumentsById(ids) == {d \in Documents : d.id \in ids}

\* lines 294-306
enhanceChunksWithDocumentContext(cs, documents) ==
    IF documents.isNull THEN cs
    ELSE [i \in 1..Len(cs) |->
            LET hit == {d \in documents.rows : d.id = cs[i].document_id}
            IN  IF hit = {}
                THEN [cs[i] EXCEPT !.file_path = NoPath, !.file_type = ""]
                ELSE LET d == CHOOSE x \in hit : TRUE
                     IN  [cs[i] EXCEPT !.file_path = d.file_path, !.file_type = d.file_type]]

----------------------------------------------------------------------------
(* parseModelResponse and calculateReadingTime (lines 692-741).            *)

\* String.prototype.split on the separator
RECURSIVE Split(_)
Split(s) ==
    IF \A i \in 1..Len(s) : s[i] # Separator THEN <<s>>
    ELSE LET i == CHOOSE j \in 1..Len(s) :
                      s[j] = Separator /\ \A k \in 1..(j - 1) : s[k] # Separator
         IN  <<SubSeq(s, 1, i - 1)>> \o Split(SubSeq(s, i + 1, Len(s)))

\* lines 706-707: replace(/^\*\*PART n:.*?\*\*/i, '') takes an echoed label off the front
StripLabel(s, labels) == IF s # <<>> /\ Head(s) \in labels THEN Tail(s) ELSE s

\* the last part taken for the answer
AnswerPart_Last(parts) == parts[Len(parts)]

\* line 704: parts[1]
AnswerPart(parts) == parts[2]

\* line 712: group 1 of /^(.*?)(\n\n|$)/s, the text before the first double
\* line break, or all of it
FirstParagraph(s) ==
    LET breaks == {i \in 1..(Len(s) - 1) : s[i] = Newline /\ s[i + 1] = Newline}
    IN  IF breaks = {} THEN s
        ELSE SubSeq(s, 1, (CHOOSE i \in breaks : \A j \in breaks : i <= j) - 1)

SummaryLimit == 500
PlaceholderSummary == <<"Please refer to the detailed answer below.">>

\* a paragraph of exactly the limit taken too
ParagraphFits_Inclusive(p) == StrLen(p) <= SummaryLimit

\* line 713
ParagraphFits(p) == StrLen(p) < SummaryLimit

\* the runs of white space inside one token
InnerRuns(t) ==
    CASE t = Prose199 -> 198
      [] t = "Please refer to the detailed answer below." -> 6
      [] OTHER -> 0

RECURSIVE SumInnerRuns(_)
SumInnerRuns(text) ==
    IF text = <<>> THEN 0 ELSE InnerRuns(Head(text)) + SumInnerRuns(Tail(text))

\* text.split(/\s+/).length: one more than the runs of white space
WordCount(text) ==
    Cardinality({i \in 1..Len(text) :
                    IsWhitespace(text[i]) /\ (i = 1 \/ ~IsWhitespace(text[i - 1]))})
        + SumInnerRuns(text) + 1

WordsPerMinute == 200

\* the minutes rounded down
calculateReadingTime_Floor(text) ==
    LET wordCount == WordCount(text)
    IN  IF wordCount < WordsPerMinute THEN 0
        ELSE wordCount \div WordsPerMinute

\* lines 733-741; minutes 0 stands for '< 1 min read'
calculateReadingTime(text) ==
    LET wordCount == WordCount(text)
    IN  IF wordCount < WordsPerMinute THEN 0
        ELSE (wordCount + WordsPerMinute - 1) \div WordsPerMinute

\* what parseModelResponse returns
Parsed(summary, answer) ==
    [raised |-> FALSE, summary |-> summary, answer |-> answer,
     readingTime |-> [summary |-> calculateReadingTime(summary),
                      detail |-> calculateReadingTime(answer)]]

\* rawContent.split on a content that is null or undefined: a TypeError
ParseRaises == [raised |-> TRUE, summary |-> <<>>, answer |-> <<>>,
                readingTime |-> [summary |-> 0, detail |-> 0]]

\* lines 692-728; payload.content is message.content when the payload has one
parseModelResponse(payload) ==
    IF ~payload.hasContent THEN ParseRaises
    ELSE LET rawContent == payload.content
             parts == Split(rawContent)
         IN  IF Len(parts) >= 2
             THEN Parsed(Trim(StripLabel(Trim(parts[1]), Part1Labels)),
                         Trim(StripLabel(Trim(AnswerPart(parts)), Part2Labels)))
             ELSE LET answer == Trim(rawContent)
                      firstPara == FirstParagraph(answer)
                  IN  Parsed(IF ParagraphFits(firstPara) THEN Trim(firstPara)
                             ELSE PlaceholderSummary,
                             answer)

----------------------------------------------------------------------------
(* Results (lines 23-53).                                                  *)

\* nothing was returned yet
NoResult == [success |-> FALSE, message |-> <<>>]

\* a failure that says nothing
Failure_Silent(m) == [success |-> FALSE, message |-> <<>>]

\* lines 92-95, 164-167, 171-174, 181-184, 212-215: { success: false, message }
Failure(m) == [success |-> FALSE, message |-> m]

MsgNoneInSelectedDocuments == <<"I could not find relevant information in the selected legal documents to answer your question.">>
MsgNoneInSelectedCategory == <<"I could not find relevant information from the selected legal category to answer your question.">>
MsgNoRelevantInformation == <<"I could not find relevant information in the available legal documents to answer your question.">>

\* only the document scope stops the fallback
EmptyChunksDecision_DocumentsOnly(opts) ==
    IF opts.selectedDocumentIds # {} THEN "documents" ELSE "fallback"

\* the fallback retrieval left out
EmptyChunksDecision_NeverFallback(opts) ==
    IF opts.selectedDocumentIds # {} THEN "documents" ELSE "masters"

\* lines 160-188: what askQuestion does with an empty enhanced chunk set
EmptyChunksDecision(opts) ==
    IF opts.selectedDocumentIds # {} THEN "documents"
    ELSE IF opts.selectedMasters # {} THEN "masters"
    ELSE "fallback"

\* lines 209-215
CaughtFailure(errorMessage) == Failure(<<"An error occurred: ">> \o errorMessage)

----------------------------------------------------------------------------
(* generateResponseWithFallback (lines 384-616).                           *)

modelPriority ==
    << "x-ai/grok-4.1-fast", "x-ai/grok-4-fast", "x-ai/grok-4", "x-ai/grok-2-1212",
       "x-ai/grok-beta", "google/gemini-2.0-flash-exp:free",
       "anthropic/claude-3-haiku", "meta-llama/llama-3.1-8b-instruct:free" >>

\* error messages of the failures one attempt can meet
ErrNotOk == <<"API error: ", "500 - upstream failure">>
ErrFetch == <<"Failed to fetch">>
ErrPayload == <<"Cannot read properties of undefined (reading '0')">>
ErrSign == <<"createSignedUrl rejected">>

\* the errors one attempt can end in
AttemptErrors == {ErrFetch, ErrNotOk, ErrPayload, ErrSign}

\* line 609: the error kept when an attempt fails
RecordError(previous, error) == error

\* a model of the list is skipped
NextModelIndex_Skip(i) == i + 2

\* line 490: the model tried after the one at index i
NextModelIndex(i) == i + 1

\* line 615
AllModelsFailed(last) == <<"All models failed. Last error: ">> \o last

\* line 535: the chunks for which a signed url is requested
NeedsSignedUrl(c) == c.file_path # NoPath

QuoteLength == 200

\* the ellipsis added from 200 characters on
Quote_Inclusive(content) ==
    [text |-> IF content < QuoteLength THEN content ELSE QuoteLength,
     ellipsis |-> content >= QuoteLength]

\* line 565: content.substring(0, 200) + (content.length > 200 ? '...' : '')
Quote(content) ==
    [text |-> IF content < QuoteLength THEN content ELSE QuoteLength,
     ellipsis |-> content > QuoteLength]

\* String.prototype.toLowerCase on a file type or a file path
LowerCase(s) ==
    CASE s \in {"PDF", "Pdf"} -> "pdf"
      [] s \in {"Application/PDF", "APPLICATION/PDF"} -> "application/pdf"
      [] s = "P2.PDF" -> "p2.pdf"
      [] s = "Scan.Pdf" -> "scan.pdf"
      [] s = "PDF.TXT" -> "pdf.txt"
      [] OTHER -> s

\* String.prototype.endsWith('.pdf') on a lower-case path
EndsWithPdf(s) == s \in {"p1.pdf", "p2.pdf", "scan.pdf", ".pdf"}

\* the declared type alone decides, the file path is not looked at
IsPdf_TypeOnly(fileType, path) ==
    LowerCase(fileType) = "pdf" \/ LowerCase(fileType) = "application/pdf"

\* lines 550-552
IsPdf(fileType, path) ==
    \/ LowerCase(fileType) = "pdf"
    \/ LowerCase(fileType) = "application/pdf"
    \/ (path # NoPath /\ EndsWithPdf(LowerCase(path)))

\* lines 547-557: chunk.file_type || 'text', then the canonical PDF value
NormalizedFileType(c) ==
    LET fileType == IF c.file_type = "" THEN "text" ELSE c.file_type
    IN  IF IsPdf(fileType, c.file_path) THEN "application/pdf" ELSE fileType

\* lines 559-575
Citation(c, url) ==
    [document_id |-> c.document_id, chunk_id |-> c.id,
     quote |-> Quote(c.content), full_content |-> c.content,
     similarity |-> c.similarity, file_url |-> url,
     file_type |-> NormalizedFileType(c)]

\* lines 677-683, in hundredths of a dollar per million tokens
costPer1M ==
    [m \in {"x-ai/grok-2-1212", "x-ai/grok-beta", "google/gemini-2.0-flash-exp:free",
            "anthropic/claude-3-haiku", "meta-llama/llama-3.1-8b-instruct:free"} |->
        CASE m = "x-ai/grok-2-1212" -> 200
          [] m = "x-ai/grok-beta" -> 200
          [] m = "anthropic/claude-3-haiku" -> 25
          [] OTHER -> 0]

\* the 1.0 of line 685
DefaultCostPer1M == 100

\* lines 685-686: costPer1M[model] || 1.0 takes the default for a model that
\* is not in the table and for a rate of 0 alike; the cost is in units of
\* 10^-8 dollars
estimateCost(model, tokens) ==
    LET modelCost == IF model \in DOMAIN costPer1M /\ costPer1M[model] # 0
                     THEN costPer1M[model]
                     ELSE DefaultCostPer1M
    IN  tokens * modelCost

\* data.usage of the payload; a count of 0 stands for a missing one as well
Usage(prompt, completion, total) ==
    [prompt_tokens |-> prompt, completion_tokens |-> completion, total_tokens |-> total]

\* lines 523-526
TokenUsage(usage, embTokens) ==
    LET promptTokens == usage.prompt_tokens
        completionTokens == usage.completion_tokens
        totalTokens == IF usage.total_tokens # 0 THEN usage.total_tokens
                       ELSE promptTokens + completionTokens
    IN  [embeddingTokens |-> embTokens, promptTokens |-> promptTokens,
         completionTokens |-> completionTokens, totalTokens |-> totalTokens,
         grandTotal |-> embTokens + totalTokens]

\* lines 390-396 and 479-480: the system prompt lists the chunks as sources 1..n
SystemPrompt(cs) == [i \in 1..Len(cs) |-> [source |-> i, chunk |-> cs[i].id]]

\* line 482: the user prompt carries the question
UserPrompt(q) == <<"LEGAL QUESTION: ">> \o q

\* the citations in the reverse of the order of the prompt
Success_Reversed(model, q, cs, urls, payload, p, embTokens) ==
    [success |-> TRUE, message |-> <<>>, model |-> model,
     citations |-> [i \in 1..Len(cs) |->
                      Citation(cs[Len(cs) + 1 - i], urls[Len(cs) + 1 - i])],
     chunkCount |-> Len(cs),
     debug |-> [systemPrompt |-> SystemPrompt(cs), userPrompt |-> UserPrompt(q)],
     answer |-> p.answer, summary |-> p.summary, reading_time |-> p.readingTime,
     rawResponse |-> payload.content,
     totalTokens |-> TokenUsage(payload.usage, embTokens).totalTokens,
     tokenUsage |-> TokenUsage(payload.usage, embTokens),
     estimatedCost |-> estimateCost(model, TokenUsage(payload.usage, embTokens).grandTotal)]

\* lines 580-606: p is what line 520 parsed from the payload
Success(model, q, cs, urls, payload, p, embTokens) ==
    [success |-> TRUE, message |-> <<>>, model |-> model,
     citations |-> [i \in 1..Len(cs) |-> Citation(cs[i], urls[i])],
     chunkCount |-> Len(cs),
     debug |-> [systemPrompt |-> SystemPrompt(cs), userPrompt |-> UserPrompt(q)],
     answer |-> p.answer, summary |-> p.summary, reading_time |-> p.readingTime,
     rawResponse |-> payload.content,
     totalTokens |-> TokenUsage(payload.usage, embTokens).totalTokens,
     tokenUsage |-> TokenUsage(payload.usage, embTokens),
     estimatedCost |-> estimateCost(model, TokenUsage(payload.usage, embTokens).grandTotal)]

\* lines 638-655: the entry logAIUsage inserts; costUSD is never passed
UsageRecord(model, tokenCount, answer) ==
    LET promptTokens == tokenCount
        completionTokens == (StrLen(answer) + 3) \div 4
        totalTokens == promptTokens + completionTokens
    IN  [model |-> model, prompt_tokens |-> promptTokens,
         completion_tokens |-> completionTokens, total_tokens |-> totalTokens,
         estimated_cost |-> estimateCost(model, totalTokens)]

\* no entry was inserted
NoUsageRecord == UsageRecord("", 0, <<>>)

\* an insert that rejects escapes logAIUsage
LogAIUsageRaises_Uncaught(insert) == insert = "rejected"

\* lines 638-669: the error value of the insert is only logged (line 663) and
\* the catch of line 666 swallows whatever is thrown
LogAIUsageRaises(insert) == FALSE

----------------------------------------------------------------------------
(* State.                                                                  *)

NoHist ==
    [embedCalls |-> 0, searchCalls |-> 0, mastersLookups |-> 0, metadataLookups |-> 0,
     fallbackCalls |-> 0, logCalls |-> 0, signCalls |-> 0,
     calls |-> <<>>,          \* the models invoked, in order
     inFlight |-> 0,          \* the completion calls issued and not yet answered
     failures |-> 0,          \* the attempts that ended in the catch of line 607
     lastRaised |-> <<>>,     \* the error of the last failed attempt
     completedAt |-> 0,       \* Len(calls) when a well-formed completion first arrived
     variantFailed |-> FALSE, \* a variant's embedding or similarity query failed
     returned |-> {},         \* the rows the successful similarity queries returned
     masters |-> NoData,      \* what the category lookup returned
     enhanced |-> FALSE,      \* line 158 was passed
     enhancedCount |-> 0,     \* enhancedChunks.length at line 160
     prompted |-> <<>>,       \* the chunks the prompt of the last completion call lists
     fallbackReturned |-> <<>>,  \* the rows getFallbackChunks returned
     variantTokens |-> 0,     \* the token counts of the variant embeddings, summed
     signOrder |-> <<>>,      \* the signed-url requests of the attempt, as they completed
     logOutcome |-> "none",   \* how the insert of line 661 ended
     logEntry |-> NoUsageRecord]  \* the entry handed to the insert

\* nothing has been rendered
NoView == <<>>

\* the chat page as mounted (AuthPage.tsx lines 123-125): its state, the
\* isLoading its handlers captured at the last render, the askQuestion
\* calls awaited, and counts of what the handlers did
NoChat ==
    [messages |-> <<>>, inputValue |-> <<>>, isLoading |-> FALSE, closure |-> FALSE,
     inFlight |-> 0, accepted |-> 0, userAppends |-> 0, calls |-> 0,
     assistantAppends |-> 0, returned |-> 0, raised |-> 0,
     ignored |-> FALSE, guardBroken |-> FALSE]

\* lines 56-69: the instance after construction
NewInstance == [modelPriority |-> modelPriority]

\* no completion has been parsed yet
NoCompletion == [hasContent |-> FALSE, content |-> <<>>, usage |-> Usage(0, 0, 0)]
NoParsed == Parsed(<<>>, <<>>)

\* the service at position p, with pool collected and payload to parse
Start(p, pool, payload) ==
    /\ pc = p
    /\ question = <<>>
    /\ options = [selectedDocumentIds |-> {}, selectedMasters |-> {}]
    /\ embeddingTokens = 0
    /\ searchQueries = <<>>
    /\ qi = 0
    /\ allChunks = pool
    /\ uniqueChunks = <<>>
    /\ chunks = <<>>
    /\ usedFallback = FALSE
    /\ mi = 0
    /\ lastError = <<>>
    /\ pending = {}
    /\ fileUrls = <<>>
    /\ response = NoResult
    /\ result = NoResult
    /\ outcome = "none"
    /\ data = payload
    /\ parsed = NoParsed
    /\ hist = NoHist
    /\ instance = NewInstance
    /\ requests = <<>>
    /\ view = NoView
    /\ chat = NoChat

\* the service after construction, before askQuestion is called
Init == Start("idle", <<>>, NoCompletion)

\* askQuestion returns r to its caller
Return(r) ==
    /\ pc' = "done"
    /\ result' = r
    /\ outcome' = "returned"

\* askQuestion's promise rejects
Raise ==
    /\ pc' = "done"
    /\ result' = NoResult
    /\ outcome' = "raised"

\* an exception reaches the catch of line 209
Caught(errorMessage) == Return(CaughtFailure(errorMessage))

----------------------------------------------------------------------------
(* askQuestion, lines 71-126: validation, embedding, the search loop.      *)

\* lines 88-96
AskQuestion(q, opts) ==
    /\ pc = "idle"
    /\ question' = q
    /\ options' = opts
    /\ IF validateQuestion(q).isValid
       THEN /\ pc' = "embedQuestion"
            /\ UNCHANGED <<result, outcome>>
       ELSE Return(Failure(validateQuestion(q).message))
    /\ UNCHANGED <<embeddingTokens, searchQueries, qi, allChunks, uniqueChunks, chunks,
                   usedFallback, mi, lastError, pending, fileUrls, response, hist>>
    /\ UNCHANGED <<data, parsed, instance, requests, view, chat>>

\* the token count the Embedding Provider reports for a text
TokenCount(text) == Len(text)

\* lines 100-104: the embedding of the question arrives
EmbedQuestionOk ==
    /\ pc = "embedQuestion"
    /\ embeddingTokens' = TokenCount(question)
    /\ searchQueries' = generateSearchQueries(question)
    /\ qi' = 1
    /\ pc' = "embedVariant"
    /\ hist' = [hist EXCEPT !.embedCalls = @ + 1]
    /\ UNCHANGED <<question, options, allChunks, uniqueChunks, chunks, usedFallback, mi,
                   lastError, pending, fileUrls, response, result, outcome>>
    /\ UNCHANGED <<data, parsed, instance, requests, view, chat>>

\* line 100 throws
EmbedQuestionFails ==
    /\ pc = "embedQuestion"
    /\ Caught(<<"embedding failed">>)
    /\ hist' = [hist EXCEPT !.embedCalls = @ + 1]
    /\ UNCHANGED <<question, options, embeddingTokens, searchQueries, qi, allChunks,
                   uniqueChunks, chunks, usedFallback, mi, lastError, pending, fileUrls,
                   response>>
    /\ UNCHANGED <<data, parsed, instance, requests, view, chat>>

\* line 110: the embedding of variant qi arrives
EmbedVariantOk ==
    /\ pc = "embedVariant"
    /\ pc' = "search"
    /\ hist' = [hist EXCEPT !.embedCalls = @ + 1,
                            !.variantTokens = @ + TokenCount(searchQueries[qi])]
    /\ UNCHANGED <<question, options, embeddingTokens, searchQueries, qi, allChunks,
                   uniqueChunks, chunks, usedFallback, mi, lastError, pending, fileUrls,
                   response, result, outcome>>
    /\ UNCHANGED <<data, parsed, instance, requests, view, chat>>

\* line 110 throws: nothing in the loop catches it
EmbedVariantFails ==
    /\ pc = "embedVariant"
    /\ Caught(<<"embedding failed">>)
    /\ hist' = [hist EXCEPT !.embedCalls = @ + 1, !.variantFailed = TRUE]
    /\ UNCHANGED <<question, options, embeddingTokens, searchQueries, qi, allChunks,
                   uniqueChunks, chunks, usedFallback, mi, lastError, pending, fileUrls,
                   response>>
    /\ UNCHANGED <<data, parsed, instance, requests, view, chat>>

\* lines 118-125: the pool after one similarity query
PoolAfter(all, failed, rows) == IF failed THEN all ELSE all \o rows

\* the next model of the list is raced along with the model at index i
StartAttempt_Racing(h, i, cs) ==
    [h EXCEPT !.calls = IF i < Len(modelPriority)
                        THEN @ \o <<modelPriority[i], modelPriority[i + 1]>>
                        ELSE Append(@, modelPriority[i]),
              !.inFlight = IF i < Len(modelPriority) THEN @ + 2 ELSE @ + 1,
              !.prompted = cs]

\* a fetch for the model at index i is issued with the prompt built from cs
StartAttempt(h, i, cs) ==
    [h EXCEPT !.calls = Append(@, modelPriority[i]), !.inFlight = @ + 1, !.prompted = cs]

\* generateResponseWithFallback is entered with cs (lines 187, 191)
EnterChain(cs, fallback, h) ==
    /\ chunks' = cs
    /\ usedFallback' = fallback
    /\ mi' = 1
    /\ lastError' = <<>>
    /\ pc' = "complete"
    /\ hist' = StartAttempt(h, 1, cs)
    /\ UNCHANGED <<result, outcome>>

\* lines 112-126 for variant qi, then lines 129-141 behind the last variant
SearchReturns(failed, rows) ==
    /\ pc = "search"
    /\ allChunks' = PoolAfter(allChunks, failed, rows)
    /\ hist' = [hist EXCEPT !.searchCalls = @ + 1,
                            !.variantFailed = @ \/ failed,
                            !.returned = IF failed THEN @ ELSE @ \cup Range(rows)]
    /\ IF qi < Len(searchQueries)
       THEN /\ qi' = qi + 1
            /\ pc' = "embedVariant"
            /\ UNCHANGED uniqueChunks
       ELSE /\ qi' = qi + 1
            /\ uniqueChunks' =
                   FilterBySelectedDocuments(deduplicateChunks(allChunks'), options)
            /\ pc' = IF NeedsMastersLookup(uniqueChunks', options)
                     THEN "mastersLookup" ELSE "enhance"
    /\ UNCHANGED <<question, options, embeddingTokens, searchQueries, chunks, usedFallback,
                   mi, lastError, pending, fileUrls, response, result, outcome>>
    /\ UNCHANGED <<data, parsed, instance, requests, view, chat>>

SearchError == SearchReturns(TRUE, <<>>)

SearchData == \E rows \in SearchResults : SearchReturns(FALSE, rows)

----------------------------------------------------------------------------
(* askQuestion, lines 140-188: scope, enrichment, the empty chunk set.     *)

\* lines 143-155
MastersLookup(documents) ==
    /\ pc = "mastersLookup"
    /\ uniqueChunks' = FilterBySelectedMasters(uniqueChunks, documents)
    /\ pc' = "enhance"
    /\ hist' = [hist EXCEPT !.mastersLookups = @ + 1, !.masters = documents]
    /\ UNCHANGED <<question, options, embeddingTokens, searchQueries, qi, allChunks, chunks,
                   usedFallback, mi, lastError, pending, fileUrls, response, result, outcome>>
    /\ UNCHANGED <<data, parsed, instance, requests, view, chat>>

MastersLookupData == MastersLookup(Data(DocumentsOfMasters(options.selectedMasters)))

MastersLookupNull == MastersLookup(NoData)

\* the chain is entered with whatever there is
NoChunks_Never(cs) == FALSE

\* lines 160, 180: the tests for an empty chunk set
NoChunks(cs) == Len(cs) = 0

\* lines 158-191
Enhance(documents) ==
    /\ pc = "enhance"
    /\ LET enhancedChunks == enhanceChunksWithDocumentContext(uniqueChunks, documents)
           h == [hist EXCEPT !.metadataLookups = @ + 1, !.enhanced = TRUE,
                             !.enhancedCount = Len(enhancedChunks)]
       IN  IF NoChunks(enhancedChunks)
           THEN /\ hist' = h
                /\ UNCHANGED <<chunks, usedFallback, mi, lastError>>
                /\ CASE EmptyChunksDecision(options) = "documents" ->
                           Return(Failure(MsgNoneInSelectedDocuments))
                     [] EmptyChunksDecision(options) = "masters" ->
                           Return(Failure(MsgNoneInSelectedCategory))
                     [] OTHER ->
                           pc' = "fallback" /\ UNCHANGED <<result, outcome>>
           ELSE EnterChain(enhancedChunks, FALSE, h)
    /\ UNCHANGED <<question, options, embeddingTokens, searchQueries, qi, allChunks,
                   uniqueChunks, pending, fileUrls, response>>
    /\ UNCHANGED <<data, parsed, instance, requests, view, chat>>

EnhanceData ==
    Enhance(Data(DocumentsById({uniqueChunks[i].document_id : i \in 1..Len(uniqueChunks)})))

EnhanceNull == Enhance(NoData)

FallbackLimit == 3

rowG == [id |-> "g", document_id |-> "d2", similarity |-> NoSimilarity,
         content |-> 10, file_path |-> NoPath, file_type |-> ""]
rowH == [id |-> "h", document_id |-> "d1", similarity |-> NoSimilarity,
         content |-> 10, file_path |-> NoPath, file_type |-> ""]

\* what legalrnd_document_chunks holds; limit(3) lets at most 3 rows through
FallbackResults == { <<>>, <<rowF>>, <<rowF, rowG, rowH>>, <<rowF, rowG, rowH, rowZ>> }

\* lines 178-187 with getFallbackChunks (lines 312-327)
Fallback(rows) ==
    /\ pc = "fallback"
    /\ Len(rows) <= FallbackLimit
    /\ LET h == [hist EXCEPT !.fallbackCalls = @ + 1, !.fallbackReturned = rows]
       IN  IF NoChunks(rows)
           THEN /\ hist' = h
                /\ Return(Failure(MsgNoRelevantInformation))
                /\ UNCHANGED <<chunks, usedFallback, mi, lastError>>
           ELSE EnterChain(rows, TRUE, h)
    /\ UNCHANGED <<question, options, embeddingTokens, searchQueries, qi, allChunks,
                   uniqueChunks, pending, fileUrls, response>>
    /\ UNCHANGED <<data, parsed, instance, requests, view, chat>>

FallbackReturns == \E rows \in FallbackResults : Fallback(rows)

----------------------------------------------------------------------------
(* generateResponseWithFallback, lines 490-616: the chain.                 *)

\* the chain returns resp: line 187 returns it at once, line 191 goes on to
\* logAIUsage
ChainReturns(resp) ==
    IF usedFallback
    THEN Return(resp) /\ UNCHANGED response
    ELSE /\ pc' = "log"
         /\ response' = resp
         /\ UNCHANGED <<result, outcome>>

\* line 615 throws: the promise returned at line 187 is not awaited inside
\* the try block, so only the call of line 191 reaches the catch of line 209
ChainThrows(errorMessage) ==
    IF usedFallback THEN Raise ELSE Caught(errorMessage)

\* lines 607-612: the attempt for the model at index mi ends in the catch
FailAttempt(error) ==
    LET last == RecordError(lastError, error)
        h == [hist EXCEPT !.failures = @ + 1,
                          !.inFlight = IF pc = "complete" THEN @ - 1 ELSE @,
                          !.lastRaised = error]
    IN  /\ lastError' = last
        /\ pending' = {}
        /\ IF NextModelIndex(mi) <= Len(modelPriority)
           THEN /\ mi' = NextModelIndex(mi)
                /\ pc' = "complete"
                /\ hist' = StartAttempt(h, NextModelIndex(mi), chunks)
                /\ UNCHANGED <<result, outcome>>
           ELSE /\ mi' = mi
                /\ hist' = h
                /\ ChainThrows(AllModelsFailed(last))

\* lines 494-511 reject, line 513 finds a status that is not ok, or lines
\* 518-520 meet a payload without choices[0].message.content
CompletionFails(error) ==
    /\ pc = "complete"
    /\ FailAttempt(error)
    /\ UNCHANGED <<question, options, embeddingTokens, searchQueries, qi, allChunks,
                   uniqueChunks, chunks, usedFallback, fileUrls, response>>
    /\ UNCHANGED <<data, parsed, instance, requests, view, chat>>

FetchRejects == CompletionFails(ErrFetch)

ResponseNotOk == CompletionFails(ErrNotOk)

MalformedPayload == CompletionFails(ErrPayload)

\* the payloads of a completion that lines 518-526 read without throwing
Completions ==
    { [hasContent |-> TRUE,
       content |-> <<"**PART 1: SUMMARY**", "Detail", Separator, "Detail", ".">>,
       usage |-> Usage(7, 5, 12)],
      [hasContent |-> TRUE,
       content |-> <<"Detail", Newline, Newline, "Detail">>,
       usage |-> Usage(0, 0, 0)] }

\* lines 518-545: a well-formed completion arrives and the signed urls are
\* requested, all at once (Promise.all over an async map)
CompletionOk ==
    /\ pc = "complete"
    /\ \E payload \in Completions :
         LET wanted == {i \in 1..Len(chunks) : NeedsSignedUrl(chunks[i])}
             urls == [i \in 1..Len(chunks) |-> ""]
             p == parseModelResponse(payload)
         IN  /\ data' = payload
             /\ parsed' = p
             /\ fileUrls' = urls
             /\ pending' = wanted
             /\ hist' = [hist EXCEPT !.completedAt = IF @ = 0 THEN Len(hist.calls) ELSE @,
                                     !.inFlight = @ - 1,
                                     !.signCalls = @ + Cardinality(wanted),
                                     !.signOrder = <<>>]
             /\ IF wanted = {}
                THEN ChainReturns(Success(modelPriority[mi], question, chunks, urls, payload,
                                          p, embeddingTokens))
                ELSE pc' = "sign" /\ UNCHANGED <<response, result, outcome>>
    /\ UNCHANGED <<question, options, embeddingTokens, searchQueries, qi, allChunks,
                   uniqueChunks, chunks, usedFallback, mi, lastError>>
    /\ UNCHANGED <<instance, requests, view, chat>>

\* lines 536-545: createSignedUrl for chunk i answers with data or an error
SignReturns(i, url) ==
    /\ pc = "sign"
    /\ i \in pending
    /\ fileUrls' = [fileUrls EXCEPT ![i] = url]
    /\ pending' = pending \ {i}
    /\ hist' = [hist EXCEPT !.signOrder = Append(@, i)]
    /\ IF pending' = {}
       THEN ChainReturns(Success(modelPriority[mi], question, chunks, fileUrls', data,
                                 parsed, embeddingTokens))
       ELSE UNCHANGED <<pc, response, result, outcome>>
    /\ UNCHANGED <<question, options, embeddingTokens, searchQueries, qi, allChunks,
                   uniqueChunks, chunks, usedFallback, mi, lastError>>
    /\ UNCHANGED <<data, parsed, instance, requests, view, chat>>

SignedUrlData == \E i \in pending : SignReturns(i, "https://signed/" \o chunks[i].file_path)

SignedUrlError == \E i \in pending : SignReturns(i, "")

\* createSignedUrl rejects: Promise.all rejects inside the try block of the
\* attempt, so the catch of line 607 takes it
SignedUrlRejects ==
    /\ pc = "sign"
    /\ \E i \in pending : FailAttempt(ErrSign)
    /\ UNCHANGED <<question, options, embeddingTokens, searchQueries, qi, allChunks,
                   uniqueChunks, chunks, usedFallback, fileUrls, response>>
    /\ UNCHANGED <<data, parsed, instance, requests, view, chat>>

----------------------------------------------------------------------------
(* askQuestion, lines 193-208, with logAIUsage (lines 621-670).            *)

\* lines 195-208: the entry is built and the insert answers, answers with an
\* error, or rejects; what escapes logAIUsage would reach the catch of line 209
LogAIUsage ==
    /\ pc = "log"
    /\ \E insert \in {"ok", "error", "rejected"} :
         /\ hist' = [hist EXCEPT !.logCalls = @ + 1,
                                 !.logOutcome = insert,
                                 !.logEntry = UsageRecord(response.model,
                                                          embeddingTokens + response.totalTokens,
                                                          response.answer)]
         /\ IF LogAIUsageRaises(insert)
            THEN Caught(<<"usage log failed">>)
            ELSE Return(response)
    /\ UNCHANGED <<question, options, embeddingTokens, searchQueries, qi, allChunks,
                   uniqueChunks, chunks, usedFallback, mi, lastError, pending, fileUrls,
                   response>>
    /\ UNCHANGED <<data, parsed, instance, requests, view, chat>>

----------------------------------------------------------------------------

Next ==
    \/ \E q \in Questions, opts \in OptionSets : AskQuestion(q, opts)
    \/ EmbedQuestionOk
    \/ EmbedQuestionFails
    \/ EmbedVariantOk
    \/ EmbedVariantFails
    \/ SearchError
    \/ SearchData
    \/ MastersLookupData
    \/ MastersLookupNull
    \/ EnhanceData
    \/ EnhanceNull
    \/ FallbackReturns
    \/ FetchRejects
    \/ ResponseNotOk
    \/ MalformedPayload
    \/ CompletionOk
    \/ SignedUrlData
    \/ SignedUrlError
    \/ SignedUrlRejects
    \/ LogAIUsage

Spec == Init /\ [][Next]_vars

\* The collaborators of a request that was invoked: every call the request
\* is waiting for eventually returns or fails.
Responds == pc # "idle" /\ Next

SpecLive == Spec /\ WF_vars(Responds)

----------------------------------------------------------------------------
(* deduplicateChunks on its own: every pool line 129 can be handed.        *)

InitDedup == \E pool \in Pools : Start("pool", pool, NoCompletion)

\* line 129
Deduplicate ==
    /\ pc = "pool"
    /\ pc' = "ranked"
    /\ uniqueChunks' = deduplicateChunks(allChunks)
    /\ UNCHANGED <<question, options, embeddingTokens, searchQueries, qi, allChunks,
                   chunks, usedFallback, mi, lastError, pending, fileUrls, response,
                   result, outcome, data, parsed, hist, instance, requests, view, chat>>

SpecDedup == InitDedup /\ [][Deduplicate]_vars

----------------------------------------------------------------------------
(* Properties.                                                             *)

ScopeRequested == options.selectedDocumentIds # {} \/ options.selectedMasters # {}

Returned == pc = "done" /\ outcome = "returned"

Succeeded == Returned /\ result.success

DocumentIdsOf(s) == {s[i].document_id : i \in 1..Len(s)}

NoRetrievalOrCompletion ==
    /\ hist.embedCalls = 0
    /\ hist.searchCalls = 0
    /\ hist.mastersLookups = 0
    /\ hist.metadataLookups = 0
    /\ hist.fallbackCalls = 0
    /\ hist.calls = <<>>

\* C1: with a document or category scope requested and an empty chunk set
\* behind retrieval, filtering and enrichment, askQuestion returns a failure
\* with one of the two scope messages, and neither the fallback retrieval nor
\* a completion call was issued.
C1_ScopedEmptyIsFailureWithoutFallback ==
    (ScopeRequested /\ hist.enhanced /\ hist.enhancedCount = 0) =>
        /\ Returned
        /\ ~result.success
        /\ result.message \in {MsgNoneInSelectedDocuments, MsgNoneInSelectedCategory}
        /\ hist.fallbackCalls = 0
        /\ hist.calls = <<>>

C1_Witness ==
    /\ Returned
    /\ options.selectedDocumentIds = {}
    /\ options.selectedMasters # {}
    /\ hist.enhanced
    /\ hist.enhancedCount = 0
    /\ result.message = MsgNoneInSelectedCategory

\* C2 (as claimed): with a category scope, every chunk of the prompt and every
\* citation of a success result has a document id among those the selected
\* category names resolve to, whatever the category lookup returned.
C2_CategoryScopeRespected ==
    (Succeeded /\ options.selectedMasters # {}) =>
        LET resolved == {d.id : d \in DocumentsOfMasters(options.selectedMasters)}
        IN  /\ DocumentIdsOf(result.citations) \subseteq resolved
            /\ DocumentIdsOf(hist.prompted) \subseteq resolved

\* C3: with a document scope, every chunk of the prompt and every citation of
\* a success result has a document id of the allow-list.
C3_DocumentScopeRespected ==
    (Succeeded /\ options.selectedDocumentIds # {}) =>
        /\ DocumentIdsOf(result.citations) \subseteq options.selectedDocumentIds
        /\ DocumentIdsOf(hist.prompted) \subseteq options.selectedDocumentIds

C3_Witness ==
    /\ Succeeded
    /\ options.selectedDocumentIds = {"d1"}
    /\ hist.returned = {rowB, rowA2}
    /\ Len(result.citations) = 1

\* C4 (as claimed): askQuestion never raises; whatever fails, it returns a
\* result, and a failure result carries a message.
C4_NeverRaises ==
    pc = "done" =>
        /\ outcome = "returned"
        /\ (~result.success => result.message # <<>>)

\* C5: a question whose trimmed length is below 5 or above 5000 is answered
\* with a failure and no embedding, search, lookup or completion call; a
\* trimmed length of exactly 5 or exactly 5000 passes the length check.
C5_LengthCheck ==
    pc # "idle" =>
        LET n == StrLen(Trim(question))
        IN  /\ (n < 5 \/ n > 5000) =>
                   Returned /\ ~result.success /\ NoRetrievalOrCompletion
            /\ (n = 5 \/ n = 5000) =>
                   ~(Returned /\ result.message \in {MsgTooShort, MsgTooLong})

C5_Witness ==
    /\ Returned
    /\ StrLen(question) >= 5
    /\ StrLen(Trim(question)) < 5
    /\ ~result.success
    /\ NoRetrievalOrCompletion

\* C6: a question of valid length that matches a disallowed-content pattern or
\* contains an off-topic keyword is answered with a failure result carrying a
\* message, nothing is raised, and no embedding, retrieval or completion call
\* is made.
C6_ContentCheck ==
    (/\ pc # "idle"
     /\ StrLen(Trim(question)) >= 5
     /\ StrLen(Trim(question)) <= 5000
     /\ (MatchesInappropriate(question) \/ IsOffTopic(question))) =>
        /\ Returned
        /\ ~result.success
        /\ result.message # <<>>
        /\ NoRetrievalOrCompletion

C6_Witness ==
    /\ Returned
    /\ IsOffTopic(question)
    /\ ~MatchesInappropriate(question)
    /\ result.message = MsgOffTopic

\* C7: the models are invoked in priority order, the k-th only after the
\* k-1 before it were invoked and failed, and a success names the first model
\* whose attempt succeeded, with as many failed attempts as models before it.
C7_PriorityOrder ==
    /\ Len(hist.calls) <= Len(modelPriority)
    /\ \A k \in 1..Len(hist.calls) : hist.calls[k] = modelPriority[k]
    /\ Len(hist.calls) <= hist.failures + 1
    /\ Succeeded =>
           /\ Len(hist.calls) = hist.failures + 1
           /\ result.model = modelPriority[hist.failures + 1]

C7_Witness ==
    /\ Succeeded
    /\ hist.failures = 2
    /\ result.model = modelPriority[3]

\* C8 (as claimed): once a well-formed completion has arrived, no later model
\* is invoked, however the signed-url requests turn out.
C8_ChainStopsAtCompletion ==
    hist.completedAt > 0 => Len(hist.calls) = hist.completedAt

\* C9 (as claimed): when every model fails, askQuestion returns a failure
\* whose message contains the error of the last attempt and no other error
\* an attempt can end in, so none of the different errors of earlier attempts.
C9_LastErrorSurfaced ==
    (pc = "done" /\ hist.failures = Len(modelPriority)) =>
        /\ Returned
        /\ ~result.success
        /\ Contains(result.message, hist.lastRaised)
        /\ \A e \in AttemptErrors \ {hist.lastRaised} : ~Contains(result.message, e)

\* C10 (as claimed): a variant whose embedding or similarity query fails does
\* not end the request: the loop goes on to the remaining variants, and the
\* pool that is deduplicated holds every row of the successful queries.
C10_VariantFailureNotFatal ==
    /\ (hist.variantFailed /\ pc = "done") => qi > Len(searchQueries)
    /\ (qi > Len(searchQueries)) => hist.returned \subseteq Range(allChunks)

----------------------------------------------------------------------------
(* generateSearchQueries on its own: every question of a few tokens.       *)

QueryTokens ==
    {Blank, "what", "is", "why", "Why", "how", "to", "explain", "the", "bail", "simple",
     "theft"}
MaxQueryTokens == 3
QueryInputs == UNION {[1..n -> QueryTokens] : n \in 0..MaxQueryTokens}

InitExpand ==
    /\ \E q \in QueryInputs : question = q
    /\ pc = "query"
    /\ options = [selectedDocumentIds |-> {}, selectedMasters |-> {}]
    /\ embeddingTokens = 0
    /\ searchQueries = <<>>
    /\ qi = 0
    /\ allChunks = <<>>
    /\ uniqueChunks = <<>>
    /\ chunks = <<>>
    /\ usedFallback = FALSE
    /\ mi = 0
    /\ lastError = <<>>
    /\ pending = {}
    /\ fileUrls = <<>>
    /\ response = NoResult
    /\ result = NoResult
    /\ outcome = "none"
    /\ data = NoCompletion
    /\ parsed = NoParsed
    /\ hist = NoHist
    /\ instance = NewInstance
    /\ requests = <<>>
    /\ view = NoView
    /\ chat = NoChat

\* line 103
Expand ==
    /\ pc = "query"
    /\ pc' = "expanded"
    /\ searchQueries' = generateSearchQueries(question)
    /\ UNCHANGED <<question, options, embeddingTokens, qi, allChunks, uniqueChunks,
                   chunks, usedFallback, mi, lastError, pending, fileUrls, response,
                   result, outcome, data, parsed, hist, instance, requests, view, chat>>

SpecExpand == InitExpand /\ [][Expand]_vars

----------------------------------------------------------------------------
(* parseModelResponse on its own: every payload line 519 can hand it.      *)

PayloadTokens ==
    {Blank, Newline, Separator, "**PART 1: SUMMARY**", "**PART 2: DETAILED ANSWER**",
     "Detail", ".", Filler499, Prose199}
MaxTokens == 4

\* message.content is a text, or is null (a refusal, a tool call)
Payloads ==
    {NoCompletion} \cup
    {[hasContent |-> TRUE, content |-> c, usage |-> Usage(0, 0, 0)] :
        c \in UNION {[1..n -> PayloadTokens] : n \in 0..MaxTokens}}

InitParse == \E payload \in Payloads : Start("payload", <<>>, payload)

\* line 520
Parse ==
    /\ pc = "payload"
    /\ pc' = "parsed"
    /\ parsed' = parseModelResponse(data)
    /\ UNCHANGED <<question, options, embeddingTokens, searchQueries, qi, allChunks,
                   uniqueChunks, chunks, usedFallback, mi, lastError, pending, fileUrls,
                   response, result, outcome, data, hist, instance, requests, view, chat>>

SpecParse == InitParse /\ [][Parse]_vars

----------------------------------------------------------------------------
(* Claims about the aggregator.                                            *)

\* the index of the first row of pool that carries the chunk id
FirstIndexOf(pool, id) ==
    CHOOSE i \in 1..Len(pool) : pool[i].id = id /\ \A j \in 1..(i - 1) : pool[j].id # id

\* C11: the aggregator's output has exactly one entry per distinct chunk id of
\* the pool, and that entry is the first row of the pool with that id, with the
\* similarity of that first sighting, even when a later sighting scores higher.
C11_FirstSightingKept ==
    pc = "ranked" =>
        /\ {c.id : c \in Range(uniqueChunks)} = {c.id : c \in Range(allChunks)}
        /\ \A i, j \in 1..Len(uniqueChunks) :
               uniqueChunks[i].id = uniqueChunks[j].id => i = j
        /\ \A i \in 1..Len(uniqueChunks) :
               uniqueChunks[i] = allChunks[FirstIndexOf(allChunks, uniqueChunks[i].id)]

\* chunk a is seen with 40 and later with 99: the 40 is kept
C11_Witness ==
    /\ pc = "ranked"
    /\ allChunks = <<rowA, rowB, rowA2>>
    /\ uniqueChunks = <<rowB, rowA>>

\* C12: the aggregator's output is ordered by non-increasing similarity, a
\* missing similarity ranking as 0, and chunks of equal similarity stay in the
\* order in which they entered the pool.
C12_RankedStable ==
    pc = "ranked" =>
        LET key(c) == IF c.similarity = NoSimilarity THEN 0 ELSE c.similarity
        IN  \A i, j \in 1..Len(uniqueChunks) :
               i < j =>
                   /\ key(uniqueChunks[i]) >= key(uniqueChunks[j])
                   /\ key(uniqueChunks[i]) = key(uniqueChunks[j]) =>
                          FirstIndexOf(allChunks, uniqueChunks[i].id)
                              < FirstIndexOf(allChunks, uniqueChunks[j].id)

\* f has no similarity, z has similarity 0: both rank last, f before z
C12_Witness ==
    /\ pc = "ranked"
    /\ allChunks = <<rowF, rowZ, rowB>>
    /\ uniqueChunks = <<rowB, rowF, rowZ>>

----------------------------------------------------------------------------
(* Claims about citations, cost and the usage log.                         *)

\* C13: a success result has exactly one citation per chunk of the prompt,
\* and the citation at position i is built from the chunk the prompt tags as
\* source i, in whatever order the signed-url requests completed.
C13_CitationsFollowPrompt ==
    Succeeded =>
        /\ Len(result.citations) = Len(hist.prompted)
        /\ \A i \in 1..Len(hist.prompted) :
               /\ result.citations[i].chunk_id = hist.prompted[i].id
               /\ result.citations[i].document_id = hist.prompted[i].document_id

\* two signed urls were requested and the later chunk's came back first
C13_Witness ==
    /\ Succeeded
    /\ Len(hist.signOrder) = 2
    /\ hist.signOrder[1] > hist.signOrder[2]

\* C14: full_content of a citation is the whole content of its chunk; the
\* quote is the first 200 characters followed by the ellipsis exactly when
\* the content is longer than 200, and the whole content without ellipsis
\* when it has 200 characters or fewer.
C14_QuoteTruncation ==
    Succeeded =>
        \A i \in 1..Len(result.citations) :
            LET n == hist.prompted[i].content
                c == result.citations[i]
            IN  /\ c.full_content = n
                /\ n <= 200 => c.quote = [text |-> n, ellipsis |-> FALSE]
                /\ n > 200 => c.quote = [text |-> 200, ellipsis |-> TRUE]

\* one citation of exactly 200 characters and one of 201
C14_Witness ==
    /\ Succeeded
    /\ \E i, j \in 1..Len(result.citations) :
           /\ result.citations[i].full_content = 200
           /\ ~result.citations[i].quote.ellipsis
           /\ result.citations[j].full_content = 201
           /\ result.citations[j].quote.ellipsis

\* C15 (as claimed): a signed-url request that fails, by an error value or by
\* raising, only leaves that citation without file_url: askQuestion still
\* returns the success of the model attempt whose completion arrived, with
\* one citation per chunk; a chunk without storage path gets no request and
\* no file_url.
C15_SigningFailureContained ==
    /\ (pc = "done" /\ hist.completedAt > 0) =>
           /\ Succeeded
           /\ result.model = modelPriority[hist.completedAt]
           /\ Len(result.citations) = Len(chunks)
    /\ Succeeded =>
           \A i \in 1..Len(result.citations) :
               chunks[i].file_path = NoPath => result.citations[i].file_url = ""
    /\ pc = "sign" => \A i \in pending : chunks[i].file_path # NoPath

\* the cost table holds a rate of zero for the model
ZeroRated(model) == model \in DOMAIN costPer1M /\ costPer1M[model] = 0

\* C16 (as claimed): for a model whose rate in the cost table is zero the
\* estimated cost is 0, in the returned result and in the usage record.
C16_ZeroRateZeroCost ==
    (Succeeded /\ ZeroRated(result.model)) =>
        /\ result.estimatedCost = 0
        /\ hist.logCalls = 1 => hist.logEntry.estimated_cost = 0

\* C17: a failure of the insert into the usage log, an error value or a
\* rejection, does not escape askQuestion and does not change the result:
\* the caller gets the success result the chain returned.
C17_LoggingFailureSwallowed ==
    (pc = "done" /\ hist.logCalls = 1) =>
        /\ Returned
        /\ result.success
        /\ result = response

\* the insert rejected and the success result was returned all the same
C17_Witness ==
    /\ Succeeded
    /\ hist.logOutcome = "rejected"
    /\ result = response

----------------------------------------------------------------------------
(* Claims about the response parser.                                       *)

HasSeparator(text) == \E i \in 1..Len(text) : text[i] = Separator

\* the text before the first separator of text, or all of it
BeforeSeparator(text) ==
    IF HasSeparator(text)
    THEN SubSeq(text, 1, (CHOOSE i \in 1..Len(text) :
                             text[i] = Separator /\ \A k \in 1..(i - 1) : text[k] # Separator) - 1)
    ELSE text

\* the text behind the first separator of text
AfterSeparator(text) == SubSeq(text, Len(BeforeSeparator(text)) + 2, Len(text))

\* text without white space around it and without a label in front of it
Cleaned(text, labels) ==
    LET t == Trim(text)
    IN  IF t # <<>> /\ Head(t) \in labels THEN Trim(Tail(t)) ELSE t

\* C18: when the raw completion contains the separator, the summary is the
\* text before the first separator and the answer is the text between the
\* first and the second separator (or the end), each trimmed and with an
\* echoed PART 1 / PART 2 label taken off its front.
C18_SeparatorSplit ==
    (pc = "parsed" /\ data.hasContent /\ HasSeparator(data.content)) =>
        /\ ~parsed.raised
        /\ parsed.summary = Cleaned(BeforeSeparator(data.content), Part1Labels)
        /\ parsed.answer =
              Cleaned(BeforeSeparator(AfterSeparator(data.content)), Part2Labels)

\* a label, a summary, two separators: the text behind the second is dropped
C18_Witness ==
    /\ pc = "parsed"
    /\ data.content = <<"**PART 1: SUMMARY**", Separator, "Detail", Separator>>
    /\ parsed.summary = <<>>
    /\ parsed.answer = <<"Detail">>

\* C19 (as claimed): without a separator the answer is the entire text, and
\* the summary is the text up to the first double line break when that is
\* shorter than 500 characters, the placeholder otherwise.
C19_AnswerIsEntireText ==
    (pc = "parsed" /\ data.hasContent /\ ~HasSeparator(data.content)) =>
        /\ parsed.answer = data.content
        /\ parsed.summary =
              IF StrLen(FirstParagraph(data.content)) < 500
              THEN FirstParagraph(data.content)
              ELSE PlaceholderSummary

\* C19 (amended): without a separator the answer is the text with the white
\* space around it removed; the summary is the first paragraph of that
\* trimmed text, itself trimmed, when the paragraph is shorter than 500
\* characters, and the placeholder when it is 500 characters or longer.
C19_TrimmedAnswerAndParagraph ==
    (pc = "parsed" /\ data.hasContent /\ ~HasSeparator(data.content)) =>
        LET text == Trim(data.content)
            breaks == {i \in 1..(Len(text) - 1) : text[i] = Newline /\ text[i + 1] = Newline}
            paragraph == IF breaks = {} THEN text
                         ELSE SubSeq(text, 1, (CHOOSE i \in breaks : \A j \in breaks : i <= j) - 1)
        IN  /\ ~parsed.raised
            /\ parsed.answer = text
            /\ StrLen(paragraph) < 500 => parsed.summary = Trim(paragraph)
            /\ StrLen(paragraph) >= 500 => parsed.summary = PlaceholderSummary

\* a paragraph of exactly 500 characters between white space: the answer is
\* trimmed and the summary is the placeholder
C19_Witness ==
    /\ pc = "parsed"
    /\ data.content = <<Blank, Filler499, ".", Newline>>
    /\ parsed.answer = <<Filler499, ".">>
    /\ parsed.summary = PlaceholderSummary

\* C20 (as claimed): the parser never raises, whatever content a successful
\* completion call delivers, a missing content included.
C20_ParserNeverRaises ==
    pc = "parsed" => ~parsed.raised

----------------------------------------------------------------------------
(* Claims about the result, the fallback, the chain and the usage record.  *)

\* C21: what askQuestion returns is a failure with a message and neither
\* answer nor citations, or a success with answer, summary, citations,
\* reading_time, model, token usage, estimated cost and the debug prompts,
\* whose chunkCount is the number of its citations.
C21_ResultShape ==
    Returned =>
        IF result.success
        THEN /\ {"answer", "summary", "citations", "reading_time", "model", "tokenUsage",
                 "estimatedCost", "debug"} \subseteq DOMAIN result
             /\ DOMAIN result.debug = {"systemPrompt", "userPrompt"}
             /\ result.chunkCount = Len(result.citations)
        ELSE /\ result.message # <<>>
             /\ {"answer", "citations"} \cap DOMAIN result = {}

\* a success with two citations
C21_Witness ==
    /\ Succeeded
    /\ result.chunkCount = 2
    /\ Len(result.citations) = 2

\* C22: without a scope and with an empty enriched chunk set exactly one
\* fallback retrieval, of at most 3 chunks, is issued; when it returns no
\* chunk the result is the no-relevant-information failure and no model is
\* called; otherwise the chain runs on exactly the fallback chunks, which are
\* the sources of the prompt and of the citations.
C22_FallbackRetrieval ==
    /\ hist.fallbackCalls <= 1
    /\ (~ScopeRequested /\ hist.enhanced /\ hist.enhancedCount = 0 /\ pc # "fallback") =>
           /\ hist.fallbackCalls = 1
           /\ Len(hist.fallbackReturned) <= 3
           /\ hist.fallbackReturned = <<>> =>
                  /\ Returned
                  /\ result = Failure(MsgNoRelevantInformation)
                  /\ hist.calls = <<>>
           /\ hist.fallbackReturned # <<>> =>
                  /\ hist.calls # <<>>
                  /\ chunks = hist.fallbackReturned
                  /\ hist.prompted = hist.fallbackReturned
                  /\ Succeeded =>
                         /\ Len(result.citations) = Len(hist.fallbackReturned)
                         /\ \A i \in 1..Len(result.citations) :
                                result.citations[i].chunk_id = hist.fallbackReturned[i].id

\* three fallback chunks were returned and cited
C22_Witness ==
    /\ Succeeded
    /\ hist.fallbackCalls = 1
    /\ Len(hist.fallbackReturned) = 3
    /\ Len(result.citations) = 3

\* C23 (as claimed): the usage record is handed off without waiting: while
\* the insert into the usage log is unanswered, the success result has
\* already been delivered to the caller.
C23_LogIsFireAndForget ==
    pc = "log" => outcome = "returned"

\* C24: within one request at most one completion call is in flight at any
\* moment, no model is invoked twice, and the number of completion calls
\* never exceeds the length of the priority list.
C24_OneCallInFlight ==
    /\ hist.inFlight <= 1
    /\ (pc = "complete") = (hist.inFlight = 1)
    /\ \A j, k \in 1..Len(hist.calls) : hist.calls[j] = hist.calls[k] => j = k
    /\ Len(hist.calls) <= Len(modelPriority)

\* every model of the list was invoked and the last call is in flight
C24_Witness ==
    /\ Len(hist.calls) = Len(modelPriority)
    /\ hist.inFlight = 1

\* C26: the expander's output is a function of the question alone and is
\* never empty: variant 0 is the question verbatim, and exactly one variant
\* is the question followed by the domain context, for every input.
C26_ExpanderBasics ==
    pc = "expanded" =>
        /\ searchQueries = generateSearchQueries(question)
        /\ Len(searchQueries) >= 1
        /\ searchQueries[1] = question
        /\ Cardinality({i \in 1..Len(searchQueries) :
                            searchQueries[i] = question \o ContextSuffix}) = 1

\* a request for an explanation: question, five topic variants, the context variant
C26_Witness ==
    /\ pc = "expanded"
    /\ question = <<"explain", Blank, "bail">>
    /\ Len(searchQueries) = 7
    /\ searchQueries[7] = <<"explain", Blank, "bail">> \o ContextSuffix

\* C27 (as claimed): every success result, one generated from fallback
\* chunks included, comes after exactly one submission of a usage record
\* that names the model of the answer, and a request that ends in failure
\* submits none.
C27_UsageRecordPerSuccess ==
    /\ Succeeded => (hist.logCalls = 1 /\ hist.logEntry.model = result.model)
    /\ (pc = "done" /\ ~Succeeded) => hist.logCalls = 0

\* C28 (as claimed): in the usage record prompt_tokens is the sum of the
\* embedding token counts of all variant searches, completion_tokens is the
\* answer length divided by 4 and rounded up, and total_tokens is their sum.
C28_UsageRecordTokens ==
    hist.logCalls = 1 =>
        /\ hist.logEntry.prompt_tokens = hist.variantTokens
        /\ hist.logEntry.completion_tokens * 4 >= StrLen(response.answer)
        /\ (hist.logEntry.completion_tokens - 1) * 4 < StrLen(response.answer)
        /\ hist.logEntry.total_tokens =
              hist.logEntry.prompt_tokens + hist.logEntry.completion_tokens

\* C29 (as claimed): when every external call eventually returns or fails,
\* every invocation of askQuestion eventually returns a RAGResult.
C29_EventuallyReturns == (pc # "idle") ~> Returned

\* the words of a text: its maximal runs of characters that are not white space
Words(text) ==
    Cardinality({i \in 1..Len(text) :
                    ~IsWhitespace(text[i]) /\ (i = 1 \/ IsWhitespace(text[i - 1]))})
        + SumInnerRuns(text)

\* the reading time the specification gives a text of w words, in minutes;
\* 0 stands for the under-one-minute label
ReadingTimeOf(w) ==
    IF w < 200 THEN 0
    ELSE CHOOSE n \in 1..w : 200 * (n - 1) < w /\ w <= 200 * n

\* C30: the reading times of summary and answer are each computed from
\* that text's own word count: fewer than 200 words give the
\* under-one-minute label, exactly 200 words give 1 minute, and w >= 200
\* words give ceil(w / 200) minutes.
C30_ReadingTime ==
    (pc = "parsed" /\ ~parsed.raised) =>
        /\ parsed.readingTime.summary = ReadingTimeOf(Words(parsed.summary))
        /\ parsed.readingTime.detail = ReadingTimeOf(Words(parsed.answer))
        /\ Words(parsed.answer) = 200 => parsed.readingTime.detail = 1

\* a summary of exactly 200 words (1 minute) before an empty answer (the
\* under-one-minute label)
C30_Witness ==
    /\ pc = "parsed"
    /\ ~parsed.raised
    /\ Words(parsed.summary) = 200
    /\ parsed.readingTime.summary = 1
    /\ Words(parsed.answer) = 0
    /\ parsed.readingTime.detail = 0

----------------------------------------------------------------------------
(* Two invocations of askQuestion on one instance (lines 55-69, 71-217).   *)
(* An invocation is the record of its local variables; it advances by one  *)
(* await at a time and the two invocations interleave at their awaits.     *)
(* What the collaborators answer to an invocation is fixed by its script,  *)
(* so that the same invocation can be run alone with the same answers.     *)

NoOptions == [selectedDocumentIds |-> {}, selectedMasters |-> {}]

PairQuestions == { <<"bail">>, <<"writs">>, <<"why", " ", "bail">> }

\* embedding: what generateEmbedding does; rows: what every similarity
\* query returns; fallbackRows: what getFallbackChunks returns; answeredBy:
\* the completion call that is answered, counted from 1 (0: none is)
Scripts ==
    [embedding : {"ok", "throws"}, rows : { <<>>, <<rowC>> },
     fallbackRows : { <<>>, <<rowF>> }, answeredBy : {0, 1, 2}]

ScriptedCompletion ==
    [hasContent |-> TRUE, content |-> <<"Detail", Newline, Newline, "Detail">>,
     usage |-> Usage(0, 0, 0)]

\* the locals of an invocation that has been called with q and not yet run
Invocation(q, script) ==
    [pc |-> "idle", question |-> q, script |-> script, embeddingTokens |-> 0,
     searchQueries |-> <<>>, qi |-> 0, allChunks |-> <<>>, uniqueChunks |-> <<>>,
     chunks |-> <<>>, usedFallback |-> FALSE, mi |-> 0, attempts |-> 0,
     lastError |-> <<>>, fileUrls |-> <<>>, response |-> NoResult,
     result |-> NoResult, outcome |-> "none", overlapped |-> FALSE]

Returns(l, r) == [l EXCEPT !.pc = "done", !.result = r, !.outcome = "returned"]

Raises(l) == [l EXCEPT !.pc = "done", !.outcome = "raised"]

\* lines 187, 191: generateResponseWithFallback is entered with cs
EntersChain(l, cs, fallback) ==
    [l EXCEPT !.chunks = cs, !.usedFallback = fallback, !.mi = 1, !.lastError = <<>>,
              !.pc = "complete"]

\* lines 187-208: the chain returned resp
ChainReturned(l, resp) ==
    IF l.usedFallback THEN Returns(l, resp)
    ELSE [l EXCEPT !.pc = "log", !.response = resp]

\* a failed attempt drops its model from the list of the instance
AfterFailedAttempt_Drop(inst, i) ==
    [inst EXCEPT !.modelPriority =
        SubSeq(@, 1, i - 1) \o SubSeq(@, i + 1, Len(@))]

\* lines 607-611: the catch keeps the error and touches no field
AfterFailedAttempt(inst, i) == inst

\* lines 490, 607-615: the attempt for the model at index l.mi failed
AttemptFailed(l, inst, error) ==
    LET last == RecordError(l.lastError, error)
        after == AfterFailedAttempt(inst, l.mi)
    IN  IF NextModelIndex(l.mi) <= Len(after.modelPriority)
        THEN [l EXCEPT !.lastError = last, !.mi = NextModelIndex(l.mi)]
        ELSE IF l.usedFallback
             THEN Raises([l EXCEPT !.lastError = last])
             ELSE Returns([l EXCEPT !.lastError = last],
                          CaughtFailure(AllModelsFailed(last)))

\* the invocation l after the await it is at has been answered
Resume(l, inst) ==
    CASE l.pc = "idle" ->
           IF validateQuestion(l.question).isValid
           THEN [l EXCEPT !.pc = "embedQuestion"]
           ELSE Returns(l, Failure(validateQuestion(l.question).message))
      [] l.pc = "embedQuestion" ->
           IF l.script.embedding = "throws"
           THEN Returns(l, CaughtFailure(<<"embedding failed">>))
           ELSE [l EXCEPT !.embeddingTokens = TokenCount(l.question),
                          !.searchQueries = generateSearchQueries(l.question),
                          !.qi = 1, !.pc = "embedVariant"]
      [] l.pc = "embedVariant" -> [l EXCEPT !.pc = "search"]
      [] l.pc = "search" ->
           LET all == PoolAfter(l.allChunks, FALSE, l.script.rows)
           IN  IF l.qi < Len(l.searchQueries)
               THEN [l EXCEPT !.allChunks = all, !.qi = @ + 1, !.pc = "embedVariant"]
               ELSE [l EXCEPT !.allChunks = all, !.qi = @ + 1,
                              !.uniqueChunks =
                                  FilterBySelectedDocuments(deduplicateChunks(all),
                                                            NoOptions),
                              !.pc = "enhance"]
      [] l.pc = "enhance" ->
           LET enhancedChunks ==
                   enhanceChunksWithDocumentContext(
                       l.uniqueChunks, Data(DocumentsById(DocumentIdsOf(l.uniqueChunks))))
           IN  IF NoChunks(enhancedChunks)
               THEN [l EXCEPT !.pc = "fallback"]
               ELSE EntersChain(l, enhancedChunks, FALSE)
      [] l.pc = "fallback" ->
           IF NoChunks(l.script.fallbackRows)
           THEN Returns(l, Failure(MsgNoRelevantInformation))
           ELSE EntersChain(l, l.script.fallbackRows, TRUE)
      [] l.pc = "complete" ->
           IF l.attempts + 1 = l.script.answeredBy
           THEN LET wanted == {i \in 1..Len(l.chunks) : NeedsSignedUrl(l.chunks[i])}
                    urls == [i \in 1..Len(l.chunks) |-> ""]
                    called == [l EXCEPT !.attempts = @ + 1, !.fileUrls = urls]
                IN  IF wanted = {}
                    THEN ChainReturned(called,
                             Success(inst.modelPriority[l.mi], l.question, l.chunks, urls,
                                     ScriptedCompletion,
                                     parseModelResponse(ScriptedCompletion),
                                     l.embeddingTokens))
                    ELSE [called EXCEPT !.pc = "sign"]
           ELSE AttemptFailed([l EXCEPT !.attempts = @ + 1], inst, ErrFetch)
      [] l.pc = "sign" ->
           LET urls == [i \in 1..Len(l.chunks) |->
                          IF NeedsSignedUrl(l.chunks[i])
                          THEN "https://signed/" \o l.chunks[i].file_path ELSE ""]
           IN  ChainReturned([l EXCEPT !.fileUrls = urls],
                   Success(inst.modelPriority[l.mi], l.question, l.chunks, urls,
                           ScriptedCompletion, parseModelResponse(ScriptedCompletion),
                           l.embeddingTokens))
      [] l.pc = "log" -> Returns(l, l.response)
      [] OTHER -> l

\* the instance after that step
InstanceAfter(l, inst) ==
    IF l.pc = "complete" /\ l.attempts + 1 # l.script.answeredBy
    THEN AfterFailedAttempt(inst, l.mi)
    ELSE inst

\* the invocation run to its end with no other invocation on the instance
RECURSIVE RunAlone(_, _)
RunAlone(l, inst) ==
    IF l.pc = "done" THEN l ELSE RunAlone(Resume(l, inst), InstanceAfter(l, inst))

InProgress(l) == l.pc \notin {"idle", "done"}

InitPair ==
    /\ \E q1 \in PairQuestions, q2 \in PairQuestions, s1 \in Scripts, s2 \in Scripts :
          requests = <<Invocation(q1, s1), Invocation(q2, s2)>>
    /\ instance = NewInstance
    /\ view = NoView
    /\ chat = NoChat
    /\ pc = "pair"
    /\ question = <<>>
    /\ options = NoOptions
    /\ embeddingTokens = 0
    /\ searchQueries = <<>>
    /\ qi = 0
    /\ allChunks = <<>>
    /\ uniqueChunks = <<>>
    /\ chunks = <<>>
    /\ usedFallback = FALSE
    /\ mi = 0
    /\ lastError = <<>>
    /\ pending = {}
    /\ fileUrls = <<>>
    /\ response = NoResult
    /\ result = NoResult
    /\ outcome = "none"
    /\ data = NoCompletion
    /\ parsed = NoParsed
    /\ hist = NoHist

\* the event loop resumes invocation i at the await it is waiting at
ResumeInvocation(i) ==
    /\ pc = "pair"
    /\ requests[i].pc # "done"
    /\ requests' =
          [requests EXCEPT
             ![i] = [Resume(@, instance) EXCEPT
                       !.overlapped = @ \/ InProgress(requests[3 - i])]]
    /\ instance' = InstanceAfter(requests[i], instance)
    /\ UNCHANGED <<pc, question, options, embeddingTokens, searchQueries, qi, allChunks,
                   uniqueChunks, chunks, usedFallback, mi, lastError, pending, fileUrls,
                   response, result, outcome, data, parsed, hist, view, chat>>

NextPair == \E i \in 1..2 : ResumeInvocation(i)

SpecPair == InitPair /\ [][NextPair]_vars

\* C25: two invocations running concurrently on one instance share no
\* mutable state: in every interleaving of their steps each one ends with
\* the result it has when run alone with the same question and the same
\* answers of the collaborators, and the model priority list of the
\* instance is never modified.
C25_InvocationsIndependent ==
    /\ instance.modelPriority = modelPriority
    /\ \A i \in 1..Len(requests) :
          requests[i].pc = "done" =>
             LET alone == RunAlone(Invocation(requests[i].question, requests[i].script),
                                   NewInstance)
             IN  /\ requests[i].outcome = alone.outcome
                 /\ requests[i].result = alone.result

\* both invocations ended with a success after being in the chain together,
\* the first answered by the second model and the second by the first
C25_Witness ==
    /\ Len(requests) = 2
    /\ \A i \in 1..2 : requests[i].pc = "done" /\ requests[i].overlapped
    /\ requests[1].result.success /\ requests[2].result.success
    /\ requests[1].result.model = modelPriority[2]
    /\ requests[2].result.model = modelPriority[1]
    /\ requests[1].question # requests[2].question

----------------------------------------------------------------------------
(* The citation of one chunk on its own (lines 532-576): every declared    *)
(* file type with every file path.                                         *)

FileTypes ==
    {"", "pdf", "PDF", "Pdf", "application/pdf", "Application/PDF", "APPLICATION/PDF",
     "text", "docx", "text/html"}

FilePaths == {NoPath, "p1.pdf", "P2.PDF", "Scan.Pdf", "notes.txt", "PDF.TXT", ".pdf"}

InitCite ==
    /\ \E t \in FileTypes, path \in FilePaths :
          chunks = << [rowC EXCEPT !.file_type = t, !.file_path = path] >>
    /\ pc = "chunk"
    /\ question = <<>>
    /\ options = NoOptions
    /\ embeddingTokens = 0
    /\ searchQueries = <<>>
    /\ qi = 0
    /\ allChunks = <<>>
    /\ uniqueChunks = <<>>
    /\ usedFallback = FALSE
    /\ mi = 0
    /\ lastError = <<>>
    /\ pending = {}
    /\ fileUrls = <<>>
    /\ response = NoResult
    /\ result = NoResult
    /\ outcome = "none"
    /\ data = NoCompletion
    /\ parsed = NoParsed
    /\ hist = NoHist
    /\ instance = NewInstance
    /\ requests = <<>>
    /\ view = NoView
    /\ chat = NoChat

\* lines 532-576 for the chunk, its url not signed
Cite ==
    /\ pc = "chunk"
    /\ pc' = "cited"
    /\ response' = [success |-> TRUE,
                    citations |-> [i \in 1..Len(chunks) |-> Citation(chunks[i], "")]]
    /\ UNCHANGED <<question, options, embeddingTokens, searchQueries, qi, allChunks,
                   uniqueChunks, chunks, usedFallback, mi, lastError, pending, fileUrls,
                   result, outcome, data, parsed, hist, instance, requests, view, chat>>

SpecCite == InitCite /\ [][Cite]_vars

\* the spellings of the two PDF types and the paths with a .pdf extension
DeclaredPdf(c) ==
    c.file_type \in {"pdf", "PDF", "Pdf", "application/pdf", "Application/PDF",
                     "APPLICATION/PDF"}

PdfExtension(c) == c.file_path \in {"p1.pdf", "P2.PDF", "Scan.Pdf", ".pdf"}

\* C31: a chunk whose declared file type is pdf or application/pdf in any
\* letter case, or whose file path ends with .pdf in any letter case, is
\* cited with the one canonical PDF type; every other chunk is cited with
\* its declared type unchanged, and with the default text type when it
\* declares none.
C31_FileTypeNormalised ==
    pc = "cited" =>
        \A i \in 1..Len(chunks) :
            LET c == chunks[i]
                t == response.citations[i].file_type
            IN  /\ (DeclaredPdf(c) \/ PdfExtension(c)) => t = "application/pdf"
                /\ (~DeclaredPdf(c) /\ ~PdfExtension(c) /\ c.file_type # "") =>
                       t = c.file_type
                /\ (~DeclaredPdf(c) /\ ~PdfExtension(c) /\ c.file_type = "") =>
                       t = "text"

\* a chunk declared as docx whose path ends with .PDF is cited as a PDF
C31_Witness ==
    /\ pc = "cited"
    /\ chunks[1].file_type = "docx"
    /\ chunks[1].file_path = "P2.PDF"
    /\ response.citations[1].file_type = "application/pdf"

\* the question without its connector words, trimmed
BareTopic(q) == Trim(SelectSeq(q, LAMBDA t : ToLower(t) \notin TopicStripWords))

\* the five introductory variants of topic T, in order
IntroductoryVariants(T) ==
    << <<"introduction", " ", "to", " ">> \o T,
       T \o <<" ", "basics">>,
       <<"what", " ", "is", " ">> \o T,
       T \o <<" ", "for", " ", "beginners">>,
       T \o <<" ", "overview">> >>

\* C32 (as claimed): for a question matching one of the trigger words the
\* expander strips the connector words to get a bare topic T and, when T is
\* not empty, appends the five variants of T in order directly after
\* variant 0 and before the domain-context variant; for a question matching
\* no trigger word the domain-context variant follows variant 0 directly.
C32_TopicVariants ==
    pc = "expanded" =>
        IF NeedsSimple(question)
        THEN BareTopic(question) # <<>> =>
                /\ Len(searchQueries) >= 7
                /\ SubSeq(searchQueries, 2, 6) = IntroductoryVariants(BareTopic(question))
                /\ searchQueries[7] = question \o ContextSuffix
        ELSE searchQueries[2] = question \o ContextSuffix

Fired(rule) == IF rule THEN 1 ELSE 0

\* the number of variants the rules give question q
VariantCount(q) ==
    1 + 5 * Fired(NeedsSimple(q) /\ Topic(q) # <<>>) + 1
      + 2 * Fired(IncludesPhrase(q, <<"what", " ", "is">>))
      + 2 * Fired(IncludesPhrase(q, <<"how", " ", "to">>))
      + 2 * Fired(IncludesPhrase(q, <<"why">>))

\* the reformulations of q in the order what is, how to, why
ReformulationsInOrder(q) ==
    (IF IncludesPhrase(q, <<"what", " ", "is">>)
     THEN << ReplaceFirst(q, <<"what", " ", "is">>, <<"meaning", " ", "of">>),
             ReplaceFirst(q, <<"what", " ", "is">>, <<"introduction", " ", "to">>) >>
     ELSE <<>>)
    \o (IF IncludesPhrase(q, <<"how", " ", "to">>)
        THEN << ReplaceFirst(q, <<"how", " ", "to">>, <<"practice", " ", "of">>),
                ReplaceFirst(q, <<"how", " ", "to">>, <<"method", " ", "for">>) >>
        ELSE <<>>)
    \o (IF IncludesPhrase(q, <<"why">>)
        THEN << ReplaceFirst(q, <<"why">>, <<"reason", " ", "for">>),
                ReplaceFirst(q, <<"why">>, <<"purpose", " ", "of">>) >>
        ELSE <<>>)

\* the variants of the question are counted by the rules that fired and
\* end with the reformulations in rule order
VariantsFollowRules ==
    LET n == Len(searchQueries)
        k == Len(ReformulationsInOrder(question))
    IN  /\ n = VariantCount(question)
        /\ n >= 2 /\ n <= 13
        /\ SubSeq(searchQueries, n - k + 1, n) = ReformulationsInOrder(question)
        /\ searchQueries[n - k] = question \o ContextSuffix

\* C33 (as claimed): behind the domain-context variant come the
\* reformulations of the what is, how to and why rules in that order, two
\* for each rule whose phrase occurs in the question, duplicates kept, so
\* that the variants number 1 + 5*[topic] + 1 + 2*[what is] + 2*[how to] +
\* 2*[why], between 2 and 13; and a request that expanded its question
\* attempts exactly one similarity search per variant.
C33_VariantsAndSearches ==
    /\ searchQueries # <<>> => VariantsFollowRules
    /\ (pc = "done" /\ searchQueries # <<>>) => hist.searchCalls = Len(searchQueries)

IdsOf(cs) == [i \in 1..Len(cs) |-> cs[i].id]

\* sub is what is left of full when the elements outside sub are removed
IsSubsequenceOf(sub, full) == sub = SelectSeq(full, LAMBDA x : x \in Range(sub))

\* the chain was entered with the retrieved chunks
PromptedFromRetrieval == hist.prompted # <<>> /\ ~usedFallback

\* C34 (as claimed): in the non-fallback path the chunks of the prompt are
\* an order-preserving subsequence of the deduplicated, ranked sequence;
\* with both scopes given exactly the chunks whose document is in both
\* permitted sets survive; and enrichment neither adds, removes nor
\* reorders chunks, whatever the metadata lookup returned.
C34_PromptIsRankedSubsequence ==
    PromptedFromRetrieval =>
        LET ranked == deduplicateChunks(allChunks)
            inBoth == {d.id : d \in DocumentsOfMasters(options.selectedMasters)}
                          \cap options.selectedDocumentIds
        IN  /\ IsSubsequenceOf(IdsOf(hist.prompted), IdsOf(ranked))
            /\ (options.selectedDocumentIds # {} /\ options.selectedMasters # {}) =>
                   IdsOf(hist.prompted) =
                       IdsOf(SelectSeq(ranked, LAMBDA c : c.document_id \in inBoth))
            /\ IdsOf(hist.prompted) = IdsOf(uniqueChunks)

\* C35: the Completion Service is never called with an empty source list:
\* the prompt of every completion call enumerates at least one source,
\* numbered from 1, and its sources are the retrieved chunks that survived
\* or the rows of a fallback retrieval that was not empty.
C35_PromptHasSources ==
    hist.calls # <<>> =>
        /\ Len(hist.prompted) >= 1
        /\ Len(chunks) >= 1
        /\ \A i \in 1..Len(hist.prompted) :
              SystemPrompt(hist.prompted)[i] =
                  [source |-> i, chunk |-> hist.prompted[i].id]
        /\ IF usedFallback
           THEN hist.fallbackReturned # <<>> /\ hist.prompted = hist.fallbackReturned
           ELSE uniqueChunks # <<>> /\ IdsOf(hist.prompted) = IdsOf(uniqueChunks)

\* the last model is being called with the three rows of a fallback retrieval
C35_Witness ==
    /\ pc = "complete"
    /\ usedFallback
    /\ Len(hist.calls) = Len(modelPriority)
    /\ Len(hist.prompted) = 3
    /\ uniqueChunks = <<>>

----------------------------------------------------------------------------
(* SourceCitation (lines 781-851): the citations of a result, grouped by   *)
(* document and labelled.                                                  *)

\* the keys of groups in the order they were created
RECURSIVE GroupKeys(_, _)
GroupKeys(citations, seen) ==
    IF citations = <<>> THEN <<>>
    ELSE IF Head(citations).document_id \in seen
         THEN GroupKeys(Tail(citations), seen)
         ELSE <<Head(citations).document_id>>
                  \o GroupKeys(Tail(citations), seen \cup {Head(citations).document_id})

\* lines 786-808; originalIndex is counted from 0
groupedCitations(citations) ==
    LET keys == GroupKeys(citations, {})
        indexed == [i \in 1..Len(citations) |->
                       [citation |-> citations[i], originalIndex |-> i - 1]]
    IN  [g \in 1..Len(keys) |->
            [document_id |-> keys[g],
             chunks |-> SelectSeq(indexed,
                                  LAMBDA e : e.citation.document_id = keys[g])]]

\* the passages of a document are numbered within their group
SourceLabel_InGroup(chunk, position) == position

\* line 850: [Source {originalIndex + 1}]
SourceLabel(chunk, position) == chunk.originalIndex + 1

\* lines 812-851: nothing for no citations, else one block per group with
\* one labelled button per chunk
Rendered(citations) ==
    IF Len(citations) = 0 THEN NoView
    ELSE LET groups == groupedCitations(citations)
         IN  [g \in 1..Len(groups) |->
                [document_id |-> groups[g].document_id,
                 buttons |-> [k \in 1..Len(groups[g].chunks) |->
                                [label |-> SourceLabel(groups[g].chunks[k], k),
                                 citation |-> groups[g].chunks[k].citation]]]]

InitView ==
    /\ \E pool \in Pools :
          response = [success |-> TRUE,
                      citations |-> [i \in 1..Len(pool) |-> Citation(pool[i], "")]]
    /\ pc = "citations"
    /\ question = <<>>
    /\ options = NoOptions
    /\ embeddingTokens = 0
    /\ searchQueries = <<>>
    /\ qi = 0
    /\ allChunks = <<>>
    /\ uniqueChunks = <<>>
    /\ chunks = <<>>
    /\ usedFallback = FALSE
    /\ mi = 0
    /\ lastError = <<>>
    /\ pending = {}
    /\ fileUrls = <<>>
    /\ result = NoResult
    /\ outcome = "none"
    /\ data = NoCompletion
    /\ parsed = NoParsed
    /\ hist = NoHist
    /\ instance = NewInstance
    /\ requests = <<>>
    /\ view = NoView
    /\ chat = NoChat

\* the component renders the citations of the result
Render ==
    /\ pc = "citations"
    /\ pc' = "rendered"
    /\ view' = Rendered(response.citations)
    /\ UNCHANGED <<question, options, embeddingTokens, searchQueries, qi, allChunks,
                   uniqueChunks, chunks, usedFallback, mi, lastError, pending, fileUrls,
                   response, result, outcome, data, parsed, hist, instance, requests,
                   chat>>

SpecView == InitView /\ [][Render]_vars

\* the buttons of the view that show the citation at index i (from 1)
ButtonsOf(i) ==
    {<<g, k>> \in (1..Len(view)) \X (1..Len(response.citations)) :
        k <= Len(view[g].buttons) /\ view[g].buttons[k].label = i}

\* C36: every citation is shown with the label [Source i+1], i its index
\* in the citations array, however the citations group by document: the
\* labels are pairwise distinct, cover exactly 1..n and are the numbers of
\* the prompt's sources, and every citation is in exactly one group, that
\* of its document.
C36_LabelsAreIndices ==
    pc = "rendered" =>
        LET n == Len(response.citations)
        IN  /\ \A i \in 1..n :
                  /\ Cardinality(ButtonsOf(i)) = 1
                  /\ \A b \in ButtonsOf(i) :
                        /\ view[b[1]].buttons[b[2]].citation = response.citations[i]
                        /\ view[b[1]].document_id = response.citations[i].document_id
            /\ \A g \in 1..Len(view) : \A k \in 1..Len(view[g].buttons) :
                  view[g].buttons[k].label \in 1..n
            /\ \A g, h \in 1..Len(view) :
                  view[g].document_id = view[h].document_id => g = h

\* three citations of two documents, the first and the third in one group
C36_Witness ==
    /\ pc = "rendered"
    /\ Len(response.citations) = 3
    /\ Len(view) = 2
    /\ Len(view[1].buttons) = 2
    /\ view[1].buttons[2].label = 3
    /\ view[2].buttons[1].label = 2

----------------------------------------------------------------------------
(* EnhancedChatPage (pages/auth/AuthPage.tsx lines 254-329): sending a     *)
(* message.  A handler reads the isLoading of the render it was created    *)
(* in; the updates made inside an event are rendered before the next       *)
(* event, those made after an await when React gets to it.                 *)

serviceVars ==
    <<pc, question, options, embeddingTokens, searchQueries, qi, allChunks, uniqueChunks,
      chunks, usedFallback, mi, lastError, pending, fileUrls, response, result, outcome,
      data, parsed, hist, instance, requests, view>>

ChatTexts == { <<>>, <<Blank>>, <<"writs">>, <<Blank, "why", Blank, "bail", Blank>> }

\* what askQuestion can return to the page
ChatResponses ==
    { [success |-> TRUE, message |-> <<>>, answer |-> <<"Detail">>],
      [success |-> TRUE, message |-> <<>>, answer |-> <<>>],
      [success |-> FALSE, message |-> MsgNoRelevantInformation, answer |-> <<>>],
      [success |-> FALSE, message |-> <<>>, answer |-> <<>>] }

MaxSends == 2

InitChat ==
    /\ chat = NoChat
    /\ pc = "chat"
    /\ question = <<>>
    /\ options = NoOptions
    /\ embeddingTokens = 0
    /\ searchQueries = <<>>
    /\ qi = 0
    /\ allChunks = <<>>
    /\ uniqueChunks = <<>>
    /\ chunks = <<>>
    /\ usedFallback = FALSE
    /\ mi = 0
    /\ lastError = <<>>
    /\ pending = {}
    /\ fileUrls = <<>>
    /\ response = NoResult
    /\ result = NoResult
    /\ outcome = "none"
    /\ data = NoCompletion
    /\ parsed = NoParsed
    /\ hist = NoHist
    /\ instance = NewInstance
    /\ requests = <<>>
    /\ view = NoView

\* a send goes through whatever isLoading is
Accepts_IgnoresLoading(text, loading) == Trim(text) # <<>>

\* line 255: if (!text.trim() || isLoading) return
Accepts(text, loading) == Trim(text) # <<>> /\ ~loading

\* lines 254-285, up to the await of askQuestion; the updates of lines
\* 271-273 are rendered as the event ends
handleSendMessage(text) ==
    IF Accepts(text, chat.closure)
    THEN [chat EXCEPT !.messages = Append(@, [type |-> "user", content |-> Trim(text)]),
                      !.isLoading = TRUE,
                      !.closure = TRUE,
                      !.inputValue = <<>>,
                      !.inFlight = @ + 1,
                      !.accepted = @ + 1,
                      !.userAppends = @ + 1,
                      !.calls = @ + 1,
                      !.guardBroken = @ \/ Trim(text) = <<>> \/ chat.isLoading]
    ELSE [chat EXCEPT !.ignored = TRUE]

\* line 531: a sample prompt is clicked, or any other caller hands a text
SendMessage ==
    /\ pc = "chat"
    /\ chat.accepted < MaxSends
    /\ \E text \in ChatTexts : chat' = handleSendMessage(text)
    /\ UNCHANGED serviceVars

\* line 632: the input changes
ChangeInput ==
    /\ pc = "chat"
    /\ \E text \in ChatTexts : text # chat.inputValue /\ chat' = [chat EXCEPT !.inputValue = text]
    /\ UNCHANGED serviceVars

\* lines 324-329: the form is submitted
handleSubmit ==
    /\ pc = "chat"
    /\ chat.accepted < MaxSends
    /\ chat' = IF Trim(chat.inputValue) # <<>>
               THEN handleSendMessage(chat.inputValue)
               ELSE [chat EXCEPT !.ignored = TRUE]
    /\ UNCHANGED serviceVars

\* lines 294-296: the text of the assistant message
AssistantContent(r) ==
    IF r.success THEN r.answer
    ELSE IF r.message = <<>> THEN <<"No response">> ELSE r.message

\* lines 285-303 and 319-321: askQuestion returned
AskQuestionReturns ==
    /\ pc = "chat"
    /\ chat.inFlight > 0
    /\ \E r \in ChatResponses :
          chat' = [chat EXCEPT
                     !.messages = Append(@, [type |-> "assistant",
                                             content |-> AssistantContent(r)]),
                     !.isLoading = FALSE,
                     !.inFlight = @ - 1,
                     !.returned = @ + 1,
                     !.assistantAppends = @ + 1]
    /\ UNCHANGED serviceVars

\* lines 315-321: askQuestion raised
AskQuestionRaises ==
    /\ pc = "chat"
    /\ chat.inFlight > 0
    /\ chat' = [chat EXCEPT !.isLoading = FALSE, !.inFlight = @ - 1, !.raised = @ + 1]
    /\ UNCHANGED serviceVars

\* the page is rendered with the state set after the await
Rerender ==
    /\ pc = "chat"
    /\ chat.closure # chat.isLoading
    /\ chat' = [chat EXCEPT !.closure = chat.isLoading]
    /\ UNCHANGED serviceVars

\* lines 408-414: the chat is cleared
handleClearChat ==
    /\ pc = "chat"
    /\ chat.messages # <<>>
    /\ chat' = [chat EXCEPT !.messages = <<>>]
    /\ UNCHANGED serviceVars

NextChat ==
    \/ SendMessage
    \/ ChangeInput
    \/ handleSubmit
    \/ AskQuestionReturns
    \/ AskQuestionRaises
    \/ Rerender
    \/ handleClearChat

SpecChat == InitChat /\ [][NextChat]_vars

\* C37: handleSendMessage ignores a blank text and a send made while
\* isLoading is true; every accepted send appends one user message and
\* issues one askQuestion call, one assistant message is appended when the
\* call returns and none when it raises, isLoading is false again once the
\* call has ended, and no second call starts while one is in flight.
C37_SendDiscipline ==
    pc = "chat" =>
        /\ ~chat.guardBroken
        /\ chat.userAppends = chat.accepted
        /\ chat.calls = chat.accepted
        /\ chat.assistantAppends = chat.returned
        /\ chat.inFlight = chat.accepted - chat.returned - chat.raised
        /\ chat.inFlight <= 1
        /\ chat.inFlight = 1 => chat.isLoading
        /\ chat.inFlight = 0 => ~chat.isLoading

\* two accepted sends, one answered and one raised, and a send ignored
C37_Witness ==
    /\ pc = "chat"
    /\ chat.accepted = 2
    /\ chat.returned = 1
    /\ chat.raised = 1
    /\ chat.ignored
    /\ ~chat.isLoading
    /\ Len(chat.messages) = 3

----------------------------------------------------------------------------
(* utils/legal-link-generator.ts: the links offered for a citation.  A     *)
(* citation is a sequence of tokens that follow each other as written.     *)

CitationTokens ==
    {Blank, "AIR", "SC", "scc", "Bom", "Cal", "Writs", "(2023)", "Disclosure"}

MaxCitationTokens == 3

Citations == UNION {[1..n -> CitationTokens] : n \in 0..MaxCitationTokens}

\* caseName is undefined, empty or a name
CaseNames == { <<>>, <<"Kesavananda">> }

\* String.prototype.toLowerCase on a token of a citation
LowerToken(t) ==
    CASE t = "AIR" -> "air"
      [] t = "SC" -> "sc"
      [] t = "Bom" -> "bom"
      [] t = "Cal" -> "cal"
      [] t = "Writs" -> "writs"
      [] t = "Disclosure" -> "disclosure"
      [] OTHER -> t

\* includes('sc') without folding the case first
IncludesSc_CaseSensitive(citation) ==
    \/ \E i \in 1..Len(citation) : citation[i] \in {"scc", "Disclosure"}
    \/ \E i \in 1..(Len(citation) - 1) :
          citation[i] = "Writs" /\ citation[i + 1] = "scc"

\* line 61: citation.toLowerCase().includes('sc'), which the second test
\* for 'scc' cannot add to; the letters may lie in one token or end one
\* token and begin the next
IncludesSc(citation) ==
    \/ \E i \in 1..Len(citation) : LowerToken(citation[i]) \in {"sc", "scc", "disclosure"}
    \/ \E i \in 1..(Len(citation) - 1) :
          /\ LowerToken(citation[i]) = "writs"
          /\ LowerToken(citation[i + 1]) \in {"sc", "scc", "cal"}

\* a run of white space becomes one blank
RECURSIVE NormalizeSpaces(_)
NormalizeSpaces(text) ==
    IF text = <<>> THEN <<>>
    ELSE IF IsWhitespace(Head(text))
         THEN <<Blank>> \o NormalizeSpaces(TrimStart(text))
         ELSE <<Head(text)>> \o NormalizeSpaces(Tail(text))

\* lines 29-34
cleanCitationForSearch(citation) ==
    Trim(NormalizeSpaces([i \in 1..Len(citation) |->
                             IF citation[i] = "(2023)" THEN "2023" ELSE citation[i]]))

\* lines 21-23: encodeURIComponent(query.trim())
encodeSearchQuery(query) ==
    LET trimmed == Trim(query)
    IN  [i \in 1..Len(trimmed) |-> IF trimmed[i] = Blank THEN "%20" ELSE trimmed[i]]

Link(name, base, query, isFree) ==
    [name |-> name, url |-> <<base>> \o query, isFree |-> isFree]

\* lines 40-102
generateLegalDatabaseLinks(citation, caseName) ==
    LET searchQuery == IF caseName # <<>>
                       THEN caseName \o <<Blank>> \o cleanCitationForSearch(citation)
                       ELSE cleanCitationForSearch(citation)
        encodedQuery == encodeSearchQuery(searchQuery)
        encodedCitation == encodeSearchQuery(cleanCitationForSearch(citation))
    IN  << Link("Indian Kanoon", "https://indiankanoon.org/search/?formInput=",
                encodedQuery, TRUE) >>
        \o (IF IncludesSc(citation)
            THEN << Link("Supreme Court of India", "https://main.sci.gov.in/judgments",
                         <<>>, TRUE) >>
            ELSE <<>>)
        \o << Link("Google Scholar", "https://scholar.google.com/scholar?q=",
                   encodedQuery \o <<"+india+court">>, TRUE),
              Link("SCC Online", "https://www.scconline.com/Members/SearchResult.aspx?search=",
                   encodedCitation, FALSE),
              Link("Manupatra",
                   "https://www.manupatrafast.com/Search/SearchResult.aspx?searchText=",
                   encodedCitation, FALSE),
              Link("eCourts India", "https://ecourts.gov.in/ecourts_home/", <<>>, TRUE) >>

\* lines 108-111: links.find(link => link.isFree) || links[0]
getBestFreeLink(citation, caseName) ==
    LET links == generateLegalDatabaseLinks(citation, caseName)
        free == {i \in 1..Len(links) : links[i].isFree}
    IN  IF free # {} THEN links[CHOOSE i \in free : \A j \in free : i <= j]
        ELSE links[1]

\* data holds the arguments and view what the two functions return
InitLinks ==
    /\ \E citation \in Citations, caseName \in CaseNames :
          data = [citation |-> citation, caseName |-> caseName]
    /\ pc = "citation"
    /\ question = <<>>
    /\ options = NoOptions
    /\ embeddingTokens = 0
    /\ searchQueries = <<>>
    /\ qi = 0
    /\ allChunks = <<>>
    /\ uniqueChunks = <<>>
    /\ chunks = <<>>
    /\ usedFallback = FALSE
    /\ mi = 0
    /\ lastError = <<>>
    /\ pending = {}
    /\ fileUrls = <<>>
    /\ response = NoResult
    /\ result = NoResult
    /\ outcome = "none"
    /\ parsed = NoParsed
    /\ hist = NoHist
    /\ instance = NewInstance
    /\ requests = <<>>
    /\ view = NoView
    /\ chat = NoChat

GenerateLinks ==
    /\ pc = "citation"
    /\ pc' = "linked"
    /\ view' = [links |-> generateLegalDatabaseLinks(data.citation, data.caseName),
                best |-> getBestFreeLink(data.citation, data.caseName)]
    /\ UNCHANGED <<question, options, embeddingTokens, searchQueries, qi, allChunks,
                   uniqueChunks, chunks, usedFallback, mi, lastError, pending, fileUrls,
                   response, result, outcome, data, parsed, hist, instance, requests,
                   chat>>

SpecLinks == InitLinks /\ [][GenerateLinks]_vars

\* the citations of the model in which the letters s and c follow each other
MentionsSc(citation) ==
    \/ \E i \in 1..Len(citation) : citation[i] \in {"SC", "scc", "Disclosure"}
    \/ \E i \in 1..(Len(citation) - 1) :
          citation[i] = "Writs" /\ citation[i + 1] \in {"SC", "scc", "Cal"}

NamesOf(links) == [i \in 1..Len(links) |-> links[i].name]

\* C38: for every citation and optional case name the first link is Indian
\* Kanoon, the Supreme Court of India link is there exactly when the
\* citation contains sc in any letter case, the links are 5 or 6 in a fixed
\* order, and getBestFreeLink returns a free link.
C38_LinksInFixedOrder ==
    pc = "linked" =>
        /\ view.links[1].name = "Indian Kanoon"
        /\ NamesOf(view.links) =
              IF MentionsSc(data.citation)
              THEN <<"Indian Kanoon", "Supreme Court of India", "Google Scholar",
                     "SCC Online", "Manupatra", "eCourts India">>
              ELSE <<"Indian Kanoon", "Google Scholar", "SCC Online", "Manupatra",
                     "eCourts India">>
        /\ view.best.isFree
        /\ \E i \in 1..Len(view.links) : view.links[i] = view.best

\* AIR (2023) SC with a case name: six links, the second the Supreme Court's
C38_Witness ==
    /\ pc = "linked"
    /\ data.citation = <<"AIR", "(2023)", "SC">>
    /\ data.caseName # <<>>
    /\ Len(view.links) = 6
    /\ view.links[2].name = "Supreme Court of India"
    /\ view.best.name = "Indian Kanoon"

====
